---- MODULE Spec2Model ----
(***************************************************************************)
(* Schema copy / paste of the Connect Admin extension                      *)
(* (src/src/extension.ts): connectAdmin.copySchema and                     *)
(* connectAdmin.copySchemaVersion stage the versions of a subject in the   *)
(* process-wide clipboard; connectAdmin.pasteSchema and                    *)
(* connectAdmin.pasteSchemaToConnection replay the clipboard into a target *)
(* registry through SchemaRegistryClient.  Every await of a handler is one *)
(* step of the model; what the remote registries answer is the input of    *)
(* the step.                                                               *)
(***************************************************************************)
EXTENDS Integers, Sequences, FiniteSets, TLC

\* ------------------------------------------------------------------ bounds
\* Highest version number the source registry holds for the copied subject.
MaxVer == 3
\* Number of anomalous answers the registries may give in one behaviour (an
\* unreadable version, an unrecognised payload, an unordered listing, a
\* rejected registration, a failed read, a response without a numeric id).
MaxAnomalies == 3
\* Levels of wrapping objects around a payload.
MaxDepth == 3
\* Frames of the call stack a recursion may use before the engine throws
\* RangeError: Maximum call stack size exceeded.
StackLimit == 6
\* Tasks in the status of a connector.
MaxTasks == 2

\* ------------------------------------------------------- program constants
\* for (let attempt = 1; attempt <= 3 && !registered; attempt++)
MaxRegisterAttempts == 3
\* findSubjectBySchema(client, schemaStr, maxSubjects = 100)
DefaultMaxSubjects == 100
\* verifySubjectRegistered(client, subject, expectedMinVersions = 1,
\* attempts = 6, initialDelayMs = 200); delay = Math.min(2000, delay * 2)
ExpectedMinVersions == 1
VerifyAttempts == 6
InitialDelayMs == 200
MaxDelayMs == 2000

\* ------------------------------------------------------------- JSON values
\* A JSON value as the registry client hands it to the handlers.  Strings and
\* numbers carry their text in s; an object carries its properties in f, in
\* key order (Object.keys order), as <<key, value>> pairs.
JNull == [t |-> "null", s |-> "", f |-> <<>>]
JStr(str) == [t |-> "str", s |-> str, f |-> <<>>]
JNum(txt) == [t |-> "num", s |-> txt, f |-> <<>>]
JObj(fields) == [t |-> "obj", s |-> "", f |-> fields]

\* The value of `undefined` where a string is expected.
Undefined == "#undefined"

\* JavaScript truthiness of a JSON value: null, "" and 0 are falsy.
Truthy(j) ==
  CASE j.t = "null" -> FALSE
    [] j.t = "str" -> j.s # ""
    [] j.t = "num" -> j.s # "0"
    [] OTHER -> TRUE

\* Truthiness of a string-or-undefined result (if (!schemaStr) ...).
TruthyStr(str) == str # Undefined /\ str # ""

HasKey(j, k) == j.t = "obj" /\ \E i \in 1..Len(j.f) : j.f[i][1] = k

\* payload[k]; JNull stands for a missing property.
Prop(j, k) ==
  IF HasKey(j, k)
  THEN j.f[CHOOSE i \in 1..Len(j.f) : j.f[i][1] = k][2]
  ELSE JNull

IsStrProp(j, k) == HasKey(j, k) /\ Prop(j, k).t = "str"

RECURSIVE extractSchemaString(_)
RECURSIVE SearchProps(_, _)

\* for (const k of Object.keys(payload)) { if (v && typeof v === 'object')
\*   { const s = extractSchemaString(v); if (s) return s; } }
SearchProps(fields, i) ==
  IF i > Len(fields) THEN Undefined
  ELSE LET v == fields[i][2]
           r == IF v.t = "obj" THEN extractSchemaString(v) ELSE Undefined
       IN IF TruthyStr(r) THEN r ELSE SearchProps(fields, i + 1)

\* Mutant: `value` is tried before `schemaString`.
extractSchemaStringValueFirst(payload) ==
  IF ~Truthy(payload) THEN Undefined
  ELSE IF payload.t = "str" THEN payload.s
  ELSE IF payload.t = "obj" THEN
    IF IsStrProp(payload, "schema") THEN Prop(payload, "schema").s
    ELSE IF IsStrProp(payload, "value") THEN Prop(payload, "value").s
    ELSE IF IsStrProp(payload, "schemaString") THEN Prop(payload, "schemaString").s
    ELSE IF Prop(payload, "schema").t = "obj" /\ IsStrProp(Prop(payload, "schema"), "schema")
      THEN Prop(Prop(payload, "schema"), "schema").s
    ELSE IF IsStrProp(payload, "definition") THEN Prop(payload, "definition").s
    ELSE SearchProps(payload.f, 1)
  ELSE Undefined

extractSchemaString(payload) ==
  IF ~Truthy(payload) THEN Undefined
  ELSE IF payload.t = "str" THEN payload.s
  ELSE IF payload.t = "obj" THEN
    IF IsStrProp(payload, "schema") THEN Prop(payload, "schema").s
    ELSE IF IsStrProp(payload, "schemaString") THEN Prop(payload, "schemaString").s
    ELSE IF Prop(payload, "schema").t = "obj" /\ IsStrProp(Prop(payload, "schema"), "schema")
      THEN Prop(Prop(payload, "schema"), "schema").s
    ELSE IF IsStrProp(payload, "definition") THEN Prop(payload, "definition").s
    ELSE IF IsStrProp(payload, "value") THEN Prop(payload, "value").s
    ELSE SearchProps(payload.f, 1)
  ELSE Undefined

\* Object graphs: a heap maps a node to its properties and a property value
\* is a string, a number, null or a reference to a node, so that an object
\* can be reached from itself.
Ref(n) == [t |-> "ref", s |-> n, f |-> <<>>]
ObjAt(h, v) == JObj(h[v.s])
\* The outcome of a call that ran out of stack.
RangeError == "#RangeError"

RECURSIVE extractSchemaStringAt(_, _, _)
RECURSIVE SearchPropsAt(_, _, _, _)

\* The recursive search over a heap; a throw of a nested call leaves the loop.
SearchPropsAt(h, fields, i, depth) ==
  IF i > Len(fields) THEN Undefined
  ELSE LET v == fields[i][2]
           r == IF v.t = "ref" THEN extractSchemaStringAt(h, v, depth + 1) ELSE Undefined
       IN IF r = RangeError \/ TruthyStr(r) THEN r ELSE SearchPropsAt(h, fields, i + 1, depth)

\* extractSchemaString on a value of a heap, as the call at the given depth of
\* the call stack.
extractSchemaStringAt(h, v, depth) ==
  IF depth > StackLimit THEN RangeError
  ELSE IF ~Truthy(v) THEN Undefined
  ELSE IF v.t = "str" THEN v.s
  ELSE IF v.t = "ref" THEN
    LET payload == ObjAt(h, v)
    IN IF IsStrProp(payload, "schema") THEN Prop(payload, "schema").s
       ELSE IF IsStrProp(payload, "schemaString") THEN Prop(payload, "schemaString").s
       ELSE IF Prop(payload, "schema").t = "ref"
               /\ IsStrProp(ObjAt(h, Prop(payload, "schema")), "schema")
         THEN Prop(ObjAt(h, Prop(payload, "schema")), "schema").s
       ELSE IF IsStrProp(payload, "definition") THEN Prop(payload, "definition").s
       ELSE IF IsStrProp(payload, "value") THEN Prop(payload, "value").s
       ELSE SearchPropsAt(h, payload.f, 1, depth)
  ELSE Undefined

\* (payloadSchema && payloadSchema.schemaType) || (payloadSchema &&
\* payloadSchema.type) || undefined, for the string-valued hints.
SchemaTypeOf(payload) ==
  IF Truthy(payload) /\ Truthy(Prop(payload, "schemaType")) THEN Prop(payload, "schemaType").s
  ELSE IF Truthy(payload) /\ Truthy(Prop(payload, "type")) THEN Prop(payload, "type").s
  ELSE Undefined

\* ------------------------------------------------------------- registries
\* The subject the copy commands read from the source registry, and the
\* subjects of the target registry in the order listSubjects returns them.
SrcSubject == "user-v1"
SubjectOrder == <<"user-v1", "user-v1-copy">>
Subjects == {SubjectOrder[i] : i \in 1..Len(SubjectOrder)}

\* The schema text of each version of the source subject (one per version).
ContentTable == <<"s1", "s2", "s3", "s4", "s5", "s6">>
Content(v) == ContentTable[v]

\* What GET /subjects/{s}/versions/{v} of the source may answer for version v:
\* the usual document, with or without a schemaType, or a document of a shape
\* extractSchemaString does not understand.
StdDoc(v, typed) ==
  IF typed
  THEN JObj(<<<<"schema", JStr(Content(v))>>, <<"schemaType", JStr("JSON")>>>>)
  ELSE JObj(<<<<"schema", JStr(Content(v))>>>>)
OddDoc(v) == JObj(<<<<"id", JNum("7")>>>>)

\* What GET /subjects/{s}/versions of the source may answer: the versions
\* 1..n in any order (the client returns the array as it is received).
Listings ==
  UNION {{l \in [1..n -> 1..n] : \A i, j \in 1..n : i # j => l[i] # l[j]} : n \in 0..MaxVer}
Ascending(l) == \A i \in 1..Len(l) : l[i] = i

\* The document the target registry serves for a stored schema text.
StoredDoc(str) == JObj(<<<<"schema", JStr(str)>>>>)

InSeq(x, q) == \E i \in 1..Len(q) : q[i] = x
IndexOf(x, q) == CHOOSE i \in 1..Len(q) : q[i] = x

\* POST /subjects/{subject}/versions on the target: a schema text the subject
\* already holds is answered with its id and adds no version; a new one is
\* appended as the next version and gets a global id.
RegVersions(r, subject, str) ==
  IF InSeq(str, r[subject]) THEN r
  ELSE [r EXCEPT ![subject] = Append(@, str)]
RegIds(g, str) == IF InSeq(str, g) THEN g ELSE Append(g, str)

VARIABLES
  clipboard,     \* (global as any).connectAdminSchemaClipboard
  cpc,           \* copySchema: position of the handler
  cNode,         \* copySchema: the tree node it was invoked on
  cVersions,     \* copySchema: versions = await client.getVersions(subject)
  cIdx,          \* copySchema: position of the for loop in versions
  cAll,          \* copySchema: all
  copyMsg,       \* the message the last copy command showed
  cFailed,       \* copySchema: the versions of its '[copy] failed to fetch' lines
  ppc,           \* paste: position of the handler
  cmd,           \* paste: which command runs
  target,        \* paste: target
  clip,          \* paste: const clipboard (the object read at entry)
  idx,           \* paste: position of for (const v of clipboard.versions)
  attempt,       \* paste: attempt
  registered,    \* paste: registered
  regRes,        \* paste: regRes.id when it is a number, else 0
  diagSchemaStr, \* paste: diagSchemaStr
  diagRet,       \* paste: where the handler continues after the diagnostic
  reg,           \* target registry: subject -> schema texts of its versions
  ids,           \* target registry: schema texts by global id
  trail,         \* what the paste did, in order: calls and [paste] log lines
  msgs,          \* the messages the paste showed, in order
  anomalies,     \* anomalous registry answers so far
  srcTyped,      \* whether the source registry's documents carry a schemaType
  vpc,           \* verifySubjectRegistered: position of the function
  vi,            \* verifySubjectRegistered: i
  vdelay,        \* verifySubjectRegistered: delay
  vlog,          \* verifySubjectRegistered: its reads and sleeps, in order
  vret,          \* verifySubjectRegistered: the value it returned
  fpc,           \* findSubjectBySchema: position of the call
  freg,          \* findSubjectBySchema: the registry behind client
  fbad,          \* findSubjectBySchema: the fetches that throw
  fstr,          \* findSubjectBySchema: schemaStr
  fret,          \* findSubjectBySchema: the value it returned
  xpc,           \* extractSchemaString: position of the call
  xpayload,      \* extractSchemaString: payload
  xheap,         \* extractSchemaString: the objects payload refers to
  xret,          \* extractSchemaString: the value it returned
  opc,           \* setOffsets: position of the method
  olog,          \* setOffsets: the requests it sent, with their answers
  ores,          \* setOffsets: res.status of the last job-level answer
  otasks,        \* setOffsets: status.tasks (the task ids)
  oti,           \* setOffsets: position of for (const t of tasks)
  oresults,      \* setOffsets: results
  oret,          \* setOffsets: how the promise settled
  mpc,           \* setOffsetsMethod: position of the method
  mverb,         \* setOffsetsMethod: method
  mconn,         \* Connect worker: the state of the connector
  mlog,          \* setOffsetsMethod: the requests it sent, with their answers
  mrets,         \* setOffsetsMethod: how the promise of each call settled
  sSettings,     \* ConnectionStore: workspace setting connectAdmin.connections
  sGlobal,       \* ConnectionStore: globalState connectAdmin.connections.v1 (JSON)
  sSecrets,      \* ConnectionStore: context.secrets, by connection id
  sHist,         \* ConnectionStore: what was last called for each id
  sret,          \* ConnectionStore: what the last listConnections/getSecret gave
  fmax,          \* findSubjectBySchema: maxSubjects
  flog,          \* findSubjectBySchema: the fetches it made, in order
  gpc,           \* pasteSchema, single-schema fallback: position of the handler
  gclip,         \* pasteSchema, single-schema fallback: const clipboard
  gattempt,      \* pasteSchema, single-schema fallback: attempt
  glog,          \* pasteSchema, single-schema fallback: its calls and sleeps
  gmsg,          \* pasteSchema, single-schema fallback: the message it showed
  kpc,           \* concurrent copies: position of each running handler
  kNode,         \* concurrent copies: the command and node of each handler
  kVersions,     \* concurrent copies: versions of each handler
  kIdx,          \* concurrent copies: loop position of each handler
  kAll,          \* concurrent copies: all of each handler
  kEnded         \* concurrent copies: the handlers in the order they returned

copyVars == <<clipboard, cpc, cNode, cVersions, cIdx, cAll, copyMsg, cFailed>>
pasteVars == <<ppc, cmd, target, clip, idx, attempt, registered, regRes,
               diagSchemaStr, diagRet, reg, ids, trail, msgs>>
vars == <<clipboard, cpc, cNode, cVersions, cIdx, cAll, copyMsg, cFailed, ppc, cmd, target,
          clip, idx, attempt, registered, regRes, diagSchemaStr, diagRet, reg, ids,
          trail, msgs, anomalies, srcTyped,
          vpc, vi, vdelay, vlog, vret, fpc, freg, fbad, fstr, fret,
          xpc, xpayload, xheap, xret,
          opc, olog, ores, otasks, oti, oresults, oret,
          mpc, mverb, mconn, mlog, mrets,
          sSettings, sGlobal, sSecrets, sHist, sret,
          fmax, flog, gpc, gclip, gattempt, glog, gmsg,
          kpc, kNode, kVersions, kIdx, kAll, kEnded>>
verifyVars == <<vpc, vi, vdelay, vlog, vret>>
findVars == <<fpc, freg, fbad, fstr, fret>>
\* The state of the functions exercised on their own.
extractVars == <<xpc, xpayload, xheap, xret>>
offsetVars == <<opc, olog, ores, otasks, oti, oresults, oret>>
methodVars == <<mpc, mverb, mconn, mlog, mrets>>
storeVars == <<sSettings, sGlobal, sSecrets, sHist, sret>>
capVars == <<fmax, flog>>
singleVars == <<gpc, gclip, gattempt, glog, gmsg>>
concVars == <<kpc, kNode, kVersions, kIdx, kAll, kEnded>>
laterVars == <<methodVars, storeVars, capVars, singleVars, concVars>>
auxVars == <<verifyVars, findVars, extractVars, offsetVars, laterVars>>

\* A target registry that already holds the first schema of the source subject
\* under the same subject name (the source itself, or an earlier paste).
Holding == [s \in Subjects |-> IF s = SrcSubject THEN <<Content(1)>> ELSE <<>>]

NoClip == [subject |-> "", versions |-> <<>>]
NoNode == [subject |-> "", version |-> 0]
NoReturn == [ok |-> FALSE, method |-> "none"]

VerifyIdle ==
  vpc = "idle" /\ vi = 0 /\ vdelay = 0 /\ vlog = <<>> /\ vret = NoReturn

\* The copy and paste commands before any of them ran.
CopyPasteIdle ==
  /\ clipboard = NoClip
  /\ cpc = "idle" /\ cNode = NoNode /\ cVersions = <<>> /\ cIdx = 0 /\ cAll = <<>>
  /\ copyMsg = "none" /\ cFailed = <<>>
  /\ ppc = "idle" /\ cmd = "none" /\ target = "" /\ clip = NoClip /\ idx = 0
  /\ attempt = 0 /\ registered = FALSE /\ regRes = 0
  /\ diagSchemaStr = Undefined /\ diagRet = "none"
  /\ \/ reg = [s \in Subjects |-> <<>>] /\ ids = <<>>
     \/ reg = Holding /\ ids = <<Content(1)>>
  /\ trail = <<>> /\ msgs = <<>>
  /\ srcTyped \in BOOLEAN

CopyPasteInit == CopyPasteIdle /\ anomalies = 0

FindIdle ==
  /\ fpc = "idle" /\ freg = [s \in Subjects |-> <<>>] /\ fbad = {} /\ fstr = ""
  /\ fret = [subject |-> "", version |-> 0]

XNodes == {"n1", "n2"}
ExtractIdle ==
  xpc = "idle" /\ xpayload = JNull /\ xheap = [n \in XNodes |-> <<>>] /\ xret = Undefined

Pending == [kind |-> "pending", why |-> "", status |-> 0]
OffsetsIdle ==
  /\ opc = "idle" /\ olog = <<>> /\ ores = 0 /\ otasks = <<>> /\ oti = 0
  /\ oresults = <<>> /\ oret = Pending

MethodIdle ==
  mpc = "idle" /\ mverb = "" /\ mconn = "RUNNING" /\ mlog = <<>> /\ mrets = <<>>

\* A string-or-undefined value; a string is the sequence of its char codes.
NoStr == [def |-> FALSE, chars |-> <<>>]
Str(chars) == [def |-> TRUE, chars |-> chars]
ConnIds == {"c1", "c2"}
NeverCalled == [op |-> "none", secret |-> NoStr]

\* A fresh extension context: no setting, no globalState key ('[]' is the
\* default of the read), no secret.
StoreIdle ==
  /\ sSettings = <<>> /\ sGlobal = <<>>
  /\ sSecrets = [id \in ConnIds |-> NoStr]
  /\ sHist = [id \in ConnIds |-> NeverCalled]
  /\ sret = [call |-> "none", id |-> "", list |-> <<>>, secret |-> NoStr]

CapIdle == fmax = DefaultMaxSubjects /\ flog = <<>>

NoSingle == [subject |-> "", schema |-> JNull]
SingleIdle ==
  gpc = "idle" /\ gclip = NoSingle /\ gattempt = 0 /\ glog = <<>> /\ gmsg = "none"

Copiers == {1, 2}
NoCommand == [cmd |-> "none", subject |-> "", version |-> 0]
ConcIdle ==
  /\ kpc = [p \in Copiers |-> "idle"] /\ kNode = [p \in Copiers |-> NoCommand]
  /\ kVersions = [p \in Copiers |-> <<>>] /\ kIdx = [p \in Copiers |-> 0]
  /\ kAll = [p \in Copiers |-> <<>>] /\ kEnded = <<>>

LaterIdle == MethodIdle /\ StoreIdle /\ CapIdle /\ SingleIdle /\ ConcIdle

Init ==
  /\ CopyPasteInit
  /\ VerifyIdle
  /\ FindIdle
  /\ ExtractIdle
  /\ OffsetsIdle /\ LaterIdle

\* ---------------------------------------------------------------- copying
\* An answer that costs an anomaly is possible while the budget lasts.
MayFail == anomalies < MaxAnomalies
Normal == anomalies' = anomalies /\ srcTyped' = srcTyped
Anomaly == MayFail /\ anomalies' = anomalies + 1 /\ srcTyped' = srcTyped

\* connectAdmin.copySchema up to its first registry call.  node.version = 0
\* stands for a subject node (no version): all versions are copied.
CopySchema ==
  /\ cpc = "idle"
  /\ \E v \in 0..MaxVer :
       /\ cNode' = [subject |-> SrcSubject, version |-> v]
       /\ cpc' = IF v = 0 THEN "list" ELSE "one"
  /\ cVersions' = <<>> /\ cIdx' = 0 /\ cAll' = <<>> /\ cFailed' = <<>>
  /\ UNCHANGED <<clipboard, copyMsg, anomalies, srcTyped>>
  /\ UNCHANGED pasteVars /\ UNCHANGED auxVars

\* Mutant: the entry is stored before all.length is looked at.
CopyStoreFirst(all) ==
  /\ clipboard' = [subject |-> cNode.subject, versions |-> all]
  /\ copyMsg' = IF Len(all) = 0 THEN "error: Failed to fetch any versions for subject"
                ELSE "info: Copied schema"

\* if (all.length === 0) return showErrorMessage(...); clipboard = {subject,
\* versions: all}; showInformationMessage(...)
CopyStore(all) ==
  IF Len(all) = 0
  THEN /\ copyMsg' = "error: Failed to fetch any versions for subject"
       /\ UNCHANGED clipboard
  ELSE /\ clipboard' = [subject |-> cNode.subject, versions |-> all]
       /\ copyMsg' = "info: Copied schema"

\* The single-version branch: one getSchema, then the store.
CopyOneVersion ==
  /\ cpc = "one"
  /\ \E how \in {"std", "odd", "throw"} :
       /\ IF how = "std" THEN Normal ELSE Anomaly
       /\ LET doc == IF how = "std" THEN StdDoc(cNode.version, srcTyped) ELSE OddDoc(cNode.version)
              all == IF how = "throw" THEN <<>>
                     ELSE <<[version |-> cNode.version, schema |-> doc]>>
          IN /\ cAll' = all
             /\ cFailed' = IF how = "throw" THEN Append(cFailed, cNode.version) ELSE cFailed
             /\ CopyStore(all)
  /\ cpc' = "done"
  /\ UNCHANGED <<cNode, cVersions, cIdx>>
  /\ UNCHANGED pasteVars /\ UNCHANGED auxVars

\* const versions = await client.getVersions(subject); an empty answer ends
\* the command with 'No versions found', a throw with 'Failed to copy schema'.
CopyGetVersions ==
  /\ cpc = "list"
  /\ \/ \E l \in Listings :
          /\ IF Ascending(l) THEN Normal ELSE Anomaly
          /\ cVersions' = l
          /\ IF Len(l) = 0
             THEN cpc' = "done" /\ copyMsg' = "error: No versions found" /\ cIdx' = 0
             ELSE cpc' = "fetch" /\ copyMsg' = copyMsg /\ cIdx' = 1
     \/ /\ Anomaly
        /\ cpc' = "done" /\ copyMsg' = "error: Failed to copy schema"
        /\ UNCHANGED <<cVersions, cIdx>>
  /\ UNCHANGED <<clipboard, cNode, cAll, cFailed>>
  /\ UNCHANGED pasteVars /\ UNCHANGED auxVars

\* Mutant: a version whose fetch throws ends the loop.
CopyGetSchemaAbort ==
  /\ cpc = "fetch" /\ cIdx <= Len(cVersions)
  /\ \E how \in {"std", "odd", "throw"} :
       /\ IF how = "std" THEN Normal ELSE Anomaly
       /\ LET v == cVersions[cIdx]
              doc == IF how = "std" THEN StdDoc(v, srcTyped) ELSE OddDoc(v)
          IN /\ cAll' = IF how = "throw" THEN cAll
                        ELSE Append(cAll, [version |-> v, schema |-> doc])
             /\ cFailed' = IF how = "throw" THEN Append(cFailed, v) ELSE cFailed
       /\ cIdx' = IF how = "throw" THEN Len(cVersions) + 1 ELSE cIdx + 1
  /\ UNCHANGED <<clipboard, cpc, cNode, cVersions, copyMsg>>
  /\ UNCHANGED pasteVars /\ UNCHANGED auxVars

\* One round of for (const v of versions): getSchema answers a document, which
\* is pushed, or throws, which is logged and skips the version.
CopyGetSchema ==
  /\ cpc = "fetch" /\ cIdx <= Len(cVersions)
  /\ \E how \in {"std", "odd", "throw"} :
       /\ IF how = "std" THEN Normal ELSE Anomaly
       /\ LET v == cVersions[cIdx]
              doc == IF how = "std" THEN StdDoc(v, srcTyped) ELSE OddDoc(v)
          IN /\ cAll' = IF how = "throw" THEN cAll
                        ELSE Append(cAll, [version |-> v, schema |-> doc])
             /\ cFailed' = IF how = "throw" THEN Append(cFailed, v) ELSE cFailed
  /\ cIdx' = cIdx + 1
  /\ UNCHANGED <<clipboard, cpc, cNode, cVersions, copyMsg>>
  /\ UNCHANGED pasteVars /\ UNCHANGED auxVars

\* After the loop: the store.
CopyFinish ==
  /\ cpc = "fetch" /\ cIdx > Len(cVersions)
  /\ CopyStore(cAll)
  /\ cpc' = "done"
  /\ UNCHANGED <<cNode, cVersions, cIdx, cAll, cFailed, anomalies, srcTyped>>
  /\ UNCHANGED pasteVars /\ UNCHANGED auxVars

\* connectAdmin.copySchemaVersion: one getSchema, then the store; a throw
\* shows 'Failed to copy schema version' and leaves the clipboard alone.
CopySchemaVersion ==
  /\ cpc = "idle"
  /\ \E v \in 1..MaxVer, how \in {"std", "odd", "throw"} :
       /\ IF how = "std" THEN Normal ELSE Anomaly
       /\ cNode' = [subject |-> SrcSubject, version |-> v]
       /\ LET doc == IF how = "std" THEN StdDoc(v, srcTyped) ELSE OddDoc(v)
          IN IF how = "throw"
             THEN /\ copyMsg' = "error: Failed to copy schema version"
                  /\ UNCHANGED <<clipboard, cAll>>
             ELSE /\ clipboard' = [subject |-> SrcSubject,
                                   versions |-> <<[version |-> v, schema |-> doc]>>]
                  /\ cAll' = <<[version |-> v, schema |-> doc]>>
                  /\ copyMsg' = "info: Copied schema version"
  /\ cpc' = "done"
  /\ UNCHANGED <<cVersions, cIdx, cFailed>>
  /\ UNCHANGED pasteVars /\ UNCHANGED auxVars

\* ---------------------------------------------------------------- pasting
Ev(e, v, a) == [ev |-> e, ver |-> v, att |-> a]
Msg(sev, text, n) == [sev |-> sev, text |-> text, n |-> n]

WarnUnverified == Msg("warning", "Schema registered but verification for T failed", 0)
WarnMayExist(n) == Msg("warning", "Schema may exist under subject S vN", n)
InfoPastedCount(n) == Msg("info", "Pasted schema to T (versions: N)", n)
InfoPasted == Msg("info", "Pasted schema to T", 0)
ErrNoClip == Msg("error", "No schema copied", 0)

NoMatch == [subject |-> "", version |-> 0]

\* The fetches of findSubjectBySchema that throw: <<"", 0>> is listSubjects,
\* <<s, 0>> is getVersions(s), <<s, v>> is getSchema(s, v).
ListFetch == <<"", 0>>
\* JSON.stringify of a document without a schema string (the documents of
\* the model that have none are OddDoc's).
Stringify(doc) == "{\"id\":7}"
\* typeof sch === 'string' ? sch : extractSchemaString(sch) || JSON.stringify(sch)
Extracted(doc) ==
  IF doc.t = "str" THEN doc.s
  ELSE IF TruthyStr(extractSchemaString(doc)) THEN extractSchemaString(doc)
       ELSE Stringify(doc)

RECURSIVE ScanVersions(_, _, _, _, _)
\* for (const v of versions) { try { sch = getSchema(s, v); extracted = ...;
\*   if (extracted === schemaStr) return { subject: s, version: v }; }
\*   catch { ignore per-version errors } }
ScanVersions(r, bad, s, str, v) ==
  IF v > Len(r[s]) THEN NoMatch
  ELSE IF <<s, v>> \notin bad /\ Extracted(StoredDoc(r[s][v])) = str
       THEN [subject |-> s, version |-> v]
       ELSE ScanVersions(r, bad, s, str, v + 1)

RECURSIVE ScanSubjectsAbort(_, _, _, _, _)
\* Mutant: a subject whose version listing throws ends the scan.
ScanSubjectsAbort(r, bad, str, i, maxSubjects) ==
  IF i > Len(SubjectOrder) \/ i - 1 >= maxSubjects THEN NoMatch
  ELSE IF <<SubjectOrder[i], 0>> \in bad THEN NoMatch
  ELSE LET m == ScanVersions(r, bad, SubjectOrder[i], str, 1)
       IN IF m # NoMatch THEN m ELSE ScanSubjectsAbort(r, bad, str, i + 1, maxSubjects)

RECURSIVE ScanSubjectsUncapped(_, _, _, _, _)
\* A variant of the scan without the check of checked against maxSubjects.
ScanSubjectsUncapped(r, bad, str, i, maxSubjects) ==
  IF i > Len(SubjectOrder) THEN NoMatch
  ELSE LET m == IF <<SubjectOrder[i], 0>> \in bad THEN NoMatch
                ELSE ScanVersions(r, bad, SubjectOrder[i], str, 1)
       IN IF m # NoMatch THEN m ELSE ScanSubjectsUncapped(r, bad, str, i + 1, maxSubjects)

RECURSIVE ScanSubjects(_, _, _, _, _)
\* for (const s of subjects) { if (checked++ >= maxSubjects) break;
\*   try { versions = getVersions(s); ... } catch { ignore subject-level errors } }
ScanSubjects(r, bad, str, i, maxSubjects) ==
  IF i > Len(SubjectOrder) \/ i - 1 >= maxSubjects THEN NoMatch
  ELSE LET m == IF <<SubjectOrder[i], 0>> \in bad THEN NoMatch
                ELSE ScanVersions(r, bad, SubjectOrder[i], str, 1)
       IN IF m # NoMatch THEN m ELSE ScanSubjects(r, bad, str, i + 1, maxSubjects)

\* findSubjectBySchema: a throw of listSubjects gives null, else the scan.
findSubjectBySchema(r, bad, str, maxSubjects) ==
  IF ListFetch \in bad THEN NoMatch ELSE ScanSubjects(r, bad, str, 1, maxSubjects)

\* Mutant: the loop reads the global buffer each time.
VersionsOfGlobal == clipboard.versions

\* const clipboard = (global as any).connectAdminSchemaClipboard, read once at
\* the start of the paste: the versions the loop goes through.
Versions == clip.versions
\* Mutant: every round takes the payload of the first version.
SchemaStrAtFirst(i) == extractSchemaString(Versions[1].schema)

\* const payloadSchema = v.schema; schemaStr = extractSchemaString(...) for the
\* version at position i of the clipboard.
SchemaStrAt(i) == extractSchemaString(Versions[i].schema)

\* The part of both paste commands after the clipboard was read: the loop
\* starts at the first version with no diagnostic schema yet.
EnterLoop(c, t, which) ==
  /\ clip' = c /\ target' = t /\ cmd' = which
  /\ idx' = 1 /\ attempt' = 0 /\ registered' = FALSE /\ regRes' = 0
  /\ diagSchemaStr' = Undefined /\ diagRet' = "none"
  /\ ppc' = "loop"
  /\ UNCHANGED <<reg, ids, trail, msgs>>

Refuse(m) ==
  /\ ppc' = "done" /\ msgs' = Append(msgs, m)
  /\ UNCHANGED <<cmd, target, clip, idx, attempt, registered, regRes, diagSchemaStr,
                 diagRet, reg, ids, trail>>

\* connectAdmin.pasteSchema on a subject node of the target registry (the tree
\* shows the subjects the registry holds): target = node.subject; without a
\* clipboard 'No schema copied'.
PasteSchema ==
  /\ ppc = "idle"
  /\ \E subject \in {s \in Subjects : Len(reg[s]) > 0} :
       IF clipboard = NoClip THEN Refuse(ErrNoClip)
       ELSE EnterLoop(clipboard, subject, "pasteSchema")
  /\ UNCHANGED copyVars /\ UNCHANGED auxVars /\ UNCHANGED <<anomalies, srcTyped>>

\* connectAdmin.pasteSchemaToConnection on a connection node: the target name
\* comes from the input box ("" when it is dismissed, which ends the command).
PasteSchemaToConnection ==
  /\ ppc = "idle"
  /\ \E name \in Subjects \cup {""} :
       IF clipboard = NoClip THEN Refuse(ErrNoClip)
       ELSE IF name = ""
       THEN /\ ppc' = "done"
            /\ UNCHANGED <<cmd, target, clip, idx, attempt, registered, regRes,
                           diagSchemaStr, diagRet, reg, ids, trail, msgs>>
       ELSE EnterLoop(clipboard, name, "pasteSchemaToConnection")
  /\ UNCHANGED copyVars /\ UNCHANGED auxVars /\ UNCHANGED <<anomalies, srcTyped>>

\* Mutant: an unrecognised payload ends the loop (break for continue).
PasteNextVersionBreak ==
  /\ ppc = "loop"
  /\ IF idx > Len(Versions)
     THEN /\ ppc' = "verify"
          /\ UNCHANGED <<idx, attempt, registered, diagSchemaStr, trail>>
     ELSE IF ~TruthyStr(SchemaStrAt(idx))
     THEN /\ trail' = Append(trail, Ev("skip", Versions[idx].version, 0))
          /\ ppc' = "verify"
          /\ UNCHANGED <<idx, attempt, registered, diagSchemaStr>>
     ELSE /\ diagSchemaStr' = IF TruthyStr(diagSchemaStr) THEN diagSchemaStr
                              ELSE SchemaStrAt(idx)
          /\ registered' = FALSE /\ attempt' = 1
          /\ ppc' = "register"
          /\ UNCHANGED <<idx, trail>>
  /\ UNCHANGED <<cmd, target, clip, regRes, diagRet, reg, ids, msgs>>
  /\ UNCHANGED copyVars /\ UNCHANGED auxVars /\ UNCHANGED <<anomalies, srcTyped>>

\* Head of for (const v of clipboard.versions): a version whose payload gives
\* no schema string is logged and skipped; otherwise the retry loop is entered
\* with attempt = 1.  Past the last version the handler goes on to verify.
PasteNextVersion ==
  /\ ppc = "loop"
  /\ IF idx > Len(Versions)
     THEN /\ ppc' = "verify"
          /\ UNCHANGED <<idx, attempt, registered, diagSchemaStr, trail>>
     ELSE IF ~TruthyStr(SchemaStrAt(idx))
     THEN /\ trail' = Append(trail, Ev("skip", Versions[idx].version, 0))
          /\ idx' = idx + 1
          /\ UNCHANGED <<ppc, attempt, registered, diagSchemaStr>>
     ELSE /\ diagSchemaStr' = IF TruthyStr(diagSchemaStr) THEN diagSchemaStr
                              ELSE SchemaStrAt(idx)
          /\ registered' = FALSE /\ attempt' = 1
          /\ ppc' = "register"
          /\ UNCHANGED <<idx, trail>>
  /\ UNCHANGED <<cmd, target, clip, regRes, diagRet, reg, ids, msgs>>
  /\ UNCHANGED copyVars /\ UNCHANGED auxVars /\ UNCHANGED <<anomalies, srcTyped>>

\* Mutant: the retry loop has no attempt limit.
NextRoundNoBudget(r) ==
  /\ attempt' = attempt + 1
  /\ IF ~r
     THEN ppc' = "register" /\ idx' = idx
     ELSE ppc' = "loop" /\ idx' = idx + 1

\* A variant of the loop condition without the registered flag.
NextRoundIgnoresFlag(r) ==
  /\ attempt' = attempt + 1
  /\ IF attempt + 1 <= MaxRegisterAttempts
     THEN ppc' = "register" /\ idx' = idx
     ELSE ppc' = "loop" /\ idx' = idx + 1

\* End of one round of for (attempt...; attempt <= 3 && !registered; attempt++):
\* where the handler is next, given the flag the round leaves.
NextRound(r) ==
  /\ attempt' = attempt + 1
  /\ IF attempt + 1 <= MaxRegisterAttempts /\ ~r
     THEN ppc' = "register" /\ idx' = idx
     ELSE ppc' = "loop" /\ idx' = idx + 1

\* Mutant: the catch of a round leaves the handler.
CatchRoundAbort ==
  /\ msgs' = Append(msgs, WarnUnverified)
  /\ ppc' = "done" /\ diagRet' = diagRet
  /\ UNCHANGED <<idx, attempt>>

\* catch (ve): the warning, then the diagnostic search (diagSchemaStr is set
\* whenever the retry loop runs).
CatchRound ==
  /\ msgs' = Append(msgs, WarnUnverified)
  /\ ppc' = "diag" /\ diagRet' = "round"
  /\ UNCHANGED <<idx, attempt>>

\* await client.registerSchema(target, payload): the registry stores the
\* schema and answers with a numeric id, or with a body that has none, or the
\* call throws.  registered = true follows a returned call at once.
PasteRegister ==
  /\ ppc = "register"
  /\ LET str == SchemaStrAt(idx)
         v == Versions[idx].version
     IN \/ /\ Normal
           /\ reg' = RegVersions(reg, target, str) /\ ids' = RegIds(ids, str)
           /\ regRes' = IndexOf(str, RegIds(ids, str))
           /\ registered' = TRUE
           /\ trail' = Append(trail, Ev("registered", v, attempt))
           /\ ppc' = "byId"
           /\ UNCHANGED <<idx, attempt, msgs, diagRet>>
        \/ /\ Anomaly
           /\ reg' = RegVersions(reg, target, str) /\ ids' = RegIds(ids, str)
           /\ regRes' = 0
           /\ registered' = TRUE
           /\ trail' = Append(trail, Ev("registered", v, attempt))
           /\ NextRound(TRUE)
           /\ UNCHANGED <<msgs, diagRet>>
        \/ /\ Anomaly
           /\ trail' = Append(trail, Ev("registerFailed", v, attempt))
           /\ CatchRound
           /\ UNCHANGED <<reg, ids, regRes, registered>>
  /\ UNCHANGED <<cmd, target, clip, diagSchemaStr>>
  /\ UNCHANGED copyVars /\ UNCHANGED auxVars

\* await client.getSchemaById(regRes.id): served, or it throws, which is
\* rethrown into catch (ve).
PasteGetSchemaById ==
  /\ ppc = "byId"
  /\ LET v == Versions[idx].version
     IN \/ /\ Normal
           /\ trail' = Append(trail, Ev("byIdOk", v, attempt))
           /\ NextRound(registered)
           /\ UNCHANGED <<msgs, diagRet>>
        \/ /\ Anomaly
           /\ trail' = Append(trail, Ev("byIdFailed", v, attempt))
           /\ CatchRound
  /\ UNCHANGED <<cmd, target, clip, registered, regRes, diagSchemaStr, reg, ids>>
  /\ UNCHANGED copyVars /\ UNCHANGED auxVars

\* await findSubjectBySchema(client, diagSchemaStr) inside a catch: a match is
\* shown as 'Schema may exist under ...'; a failing listSubjects gives null.
\* After the catch of a round the retry loop goes on; after the catch of the
\* verification the handler ends.
PasteDiagnose ==
  /\ ppc = "diag"
  /\ \/ /\ Normal
        /\ LET m == findSubjectBySchema(reg, {}, diagSchemaStr, DefaultMaxSubjects)
           IN msgs' = IF m # NoMatch THEN Append(msgs, WarnMayExist(m.version)) ELSE msgs
     \/ /\ Anomaly
        /\ msgs' = msgs
  /\ trail' = Append(trail, Ev("diag", 0, 0))
  /\ IF diagRet = "round"
     THEN NextRound(registered)
     ELSE ppc' = "done" /\ UNCHANGED <<idx, attempt>>
  /\ diagRet' = "none"
  /\ UNCHANGED <<cmd, target, clip, registered, regRes, diagSchemaStr, reg, ids>>
  /\ UNCHANGED copyVars /\ UNCHANGED auxVars

\* Mutant: a verification read that threw is repeated.
PasteVerifyRetry ==
  /\ ppc = "verify"
  /\ \/ /\ Len(reg[target]) > 0 /\ Normal
        /\ msgs' = Append(msgs, InfoPastedCount(Len(reg[target])))
        /\ trail' = Append(trail, Ev("verifyList", Len(reg[target]), 0))
        /\ ppc' = "done"
     \/ /\ Anomaly
        /\ msgs' = msgs
        /\ trail' = Append(trail, Ev("verifyThrew", 0, 0))
        /\ ppc' = "verify"
  /\ UNCHANGED <<cmd, target, clip, idx, attempt, registered, regRes, diagSchemaStr,
                 diagRet, reg, ids>>
  /\ UNCHANGED copyVars /\ UNCHANGED auxVars

\* Mutant: the diagnostic search also follows a verification read that
\* returned.
PasteVerifyDiagnoseAlways ==
  /\ ppc = "verify"
  /\ \/ /\ Len(reg[target]) > 0 /\ Normal
        /\ msgs' = Append(msgs, InfoPastedCount(Len(reg[target])))
        /\ trail' = Append(trail, Ev("verifyList", Len(reg[target]), 0))
     \/ /\ IF Len(reg[target]) = 0 THEN Normal ELSE Anomaly
        /\ msgs' = Append(msgs, InfoPasted)
        /\ trail' = Append(trail, Ev("verifyThrew", 0, 0))
  /\ IF TruthyStr(diagSchemaStr)
     THEN ppc' = "diag" /\ diagRet' = "end"
     ELSE ppc' = "done" /\ diagRet' = diagRet
  /\ UNCHANGED <<cmd, target, clip, idx, attempt, registered, regRes, diagSchemaStr,
                 reg, ids>>
  /\ UNCHANGED copyVars /\ UNCHANGED auxVars

\* verify by fetching versions: const tv = await client.getVersions(target).
\* The registry answers the version numbers of the subject (404, a throw, when
\* it holds none), or an empty list, or the call throws.  A returned list is
\* shown with its length; a throw shows 'Pasted schema to T' and runs the
\* diagnostic search when a diagnostic schema is set.
PasteVerify ==
  /\ ppc = "verify"
  /\ \/ /\ Len(reg[target]) > 0 /\ Normal
        /\ msgs' = Append(msgs, InfoPastedCount(Len(reg[target])))
        /\ trail' = Append(trail, Ev("verifyList", Len(reg[target]), 0))
        /\ ppc' = "done" /\ diagRet' = diagRet
     \/ /\ Anomaly
        /\ msgs' = Append(msgs, InfoPastedCount(0))
        /\ trail' = Append(trail, Ev("verifyList", 0, 0))
        /\ ppc' = "done" /\ diagRet' = diagRet
     \/ /\ IF Len(reg[target]) = 0 THEN Normal ELSE Anomaly
        /\ msgs' = Append(msgs, InfoPasted)
        /\ trail' = Append(trail, Ev("verifyThrew", 0, 0))
        /\ IF TruthyStr(diagSchemaStr)
           THEN ppc' = "diag" /\ diagRet' = "end"
           ELSE ppc' = "done" /\ diagRet' = diagRet
  /\ UNCHANGED <<cmd, target, clip, idx, attempt, registered, regRes, diagSchemaStr,
                 reg, ids>>
  /\ UNCHANGED copyVars /\ UNCHANGED auxVars

Next ==
  \/ CopySchema
  \/ CopyOneVersion
  \/ CopyGetVersions
  \/ CopyGetSchema
  \/ CopyFinish
  \/ CopySchemaVersion
  \/ PasteSchema
  \/ PasteSchemaToConnection
  \/ PasteNextVersion
  \/ PasteRegister
  \/ PasteGetSchemaById
  \/ PasteDiagnose
  \/ PasteVerify

Spec == Init /\ [][Next]_vars

\* ------------------------------------------------ verifySubjectRegistered
\* The function of the single-schema paste, exercised on its own with its
\* default parameters (the only way it is called); the registry's answers
\* are free.
VRead(call, res) == [call |-> call, res |-> res, ms |-> 0]
VSleep(ms) == [call |-> "sleep", res |-> "", ms |-> ms]
Min(a, b) == IF a < b THEN a ELSE b
paste2Vars == <<copyVars, pasteVars, anomalies, srcTyped>>

\* let delay = initialDelayMs; for (let i = 0; i < attempts; i++)
VerifyStart ==
  /\ vpc = "idle"
  /\ vi' = 0 /\ vdelay' = InitialDelayMs
  /\ vpc' = IF 0 < VerifyAttempts THEN "getVersions" ELSE "done"
  /\ UNCHANGED <<vlog, vret>>
  /\ UNCHANGED paste2Vars /\ UNCHANGED findVars /\ UNCHANGED extractVars /\ UNCHANGED offsetVars /\ UNCHANGED laterVars

\* Mutant: a version list with enough versions does not end the function.
VerifyGetVersionsNoStop ==
  /\ vpc = "getVersions"
  /\ \/ \E n \in 0..MaxVer :
          vlog' = Append(vlog, VRead("getVersions", IF n >= ExpectedMinVersions THEN "enough" ELSE "few"))
     \/ vlog' = Append(vlog, VRead("getVersions", "throw"))
  /\ vpc' = "listSubjects" /\ vret' = vret
  /\ UNCHANGED <<vi, vdelay>>
  /\ UNCHANGED paste2Vars /\ UNCHANGED findVars /\ UNCHANGED extractVars /\ UNCHANGED offsetVars /\ UNCHANGED laterVars

\* A variant in which an error of getVersions skips the subject list.
VerifyGetVersionsThrowSkips ==
  /\ vpc = "getVersions"
  /\ \/ \E n \in 0..MaxVer :
          /\ vlog' = Append(vlog, VRead("getVersions", IF n >= ExpectedMinVersions THEN "enough" ELSE "few"))
          /\ IF n >= ExpectedMinVersions
             THEN vpc' = "done" /\ vret' = [ok |-> TRUE, method |-> "getVersions"]
             ELSE vpc' = "listSubjects" /\ vret' = vret
     \/ /\ vlog' = Append(vlog, VRead("getVersions", "throw"))
        /\ vpc' = "sleep" /\ vret' = vret
  /\ UNCHANGED <<vi, vdelay>>
  /\ UNCHANGED paste2Vars /\ UNCHANGED findVars /\ UNCHANGED extractVars /\ UNCHANGED offsetVars /\ UNCHANGED laterVars

\* const versions = await client.getVersions(subject): enough versions
\* return ok; fewer, or a throw, go on to the fallback.
VerifyGetVersions ==
  /\ vpc = "getVersions"
  /\ \/ \E n \in 0..MaxVer :
          /\ vlog' = Append(vlog, VRead("getVersions", IF n >= ExpectedMinVersions THEN "enough" ELSE "few"))
          /\ IF n >= ExpectedMinVersions
             THEN vpc' = "done" /\ vret' = [ok |-> TRUE, method |-> "getVersions"]
             ELSE vpc' = "listSubjects" /\ vret' = vret
     \/ /\ vlog' = Append(vlog, VRead("getVersions", "throw"))
        /\ vpc' = "listSubjects" /\ vret' = vret
  /\ UNCHANGED <<vi, vdelay>>
  /\ UNCHANGED paste2Vars /\ UNCHANGED findVars /\ UNCHANGED extractVars /\ UNCHANGED offsetVars /\ UNCHANGED laterVars

\* const subjects = await client.listSubjects(): a list with the subject
\* returns ok; a list without it, or a throw, go on to the sleep.
VerifyListSubjects ==
  /\ vpc = "listSubjects"
  /\ \E res \in {"present", "absent", "throw"} :
       /\ vlog' = Append(vlog, VRead("listSubjects", res))
       /\ IF res = "present"
          THEN vpc' = "done" /\ vret' = [ok |-> TRUE, method |-> "listSubjects"]
          ELSE vpc' = "sleep" /\ vret' = vret
  /\ UNCHANGED <<vi, vdelay>>
  /\ UNCHANGED paste2Vars /\ UNCHANGED findVars /\ UNCHANGED extractVars /\ UNCHANGED offsetVars /\ UNCHANGED laterVars

\* Mutant: the delay doubles without a cap.
VerifySleepUncapped ==
  /\ vpc = "sleep"
  /\ vlog' = Append(vlog, VSleep(vdelay))
  /\ vdelay' = vdelay * 2
  /\ vi' = vi + 1
  /\ vpc' = IF vi + 1 < VerifyAttempts THEN "getVersions" ELSE "done"
  /\ vret' = vret
  /\ UNCHANGED paste2Vars /\ UNCHANGED findVars /\ UNCHANGED extractVars /\ UNCHANGED offsetVars /\ UNCHANGED laterVars

\* await new Promise(r => setTimeout(r, delay)); delay = Math.min(2000,
\* delay * 2); i++; after the last round: return { ok: false }
VerifySleep ==
  /\ vpc = "sleep"
  /\ vlog' = Append(vlog, VSleep(vdelay))
  /\ vdelay' = Min(MaxDelayMs, vdelay * 2)
  /\ vi' = vi + 1
  /\ vpc' = IF vi + 1 < VerifyAttempts THEN "getVersions" ELSE "done"
  /\ vret' = vret
  /\ UNCHANGED paste2Vars /\ UNCHANGED findVars /\ UNCHANGED extractVars /\ UNCHANGED offsetVars /\ UNCHANGED laterVars

NextVerify ==
  \/ VerifyStart
  \/ VerifyGetVersions
  \/ VerifyListSubjects
  \/ VerifySleep

SpecVerify == Init /\ [][NextVerify]_vars

\* ---------------------------------------------------- findSubjectBySchema
\* The function exercised on its own: a registry, the fetches that throw and
\* the schema string are drawn at the start, then the function is applied.
MaxScanVer == MaxVer - 1
MaxBadFetches == MaxAnomalies - 1
ScanContents == {Content(v) : v \in 1..MaxVer}
\* The versions of a subject: distinct schema texts (a registry gives a
\* schema it already holds under the subject its existing version).
SubjectVersions ==
  {q \in UNION {[1..n -> ScanContents] : n \in 0..MaxScanVer} :
     \A i, j \in 1..Len(q) : q[i] = q[j] => i = j}
Fetches == {ListFetch} \cup (Subjects \X (0..MaxScanVer))

InitFind ==
  /\ CopyPasteInit /\ reg = [s \in Subjects |-> <<>>] /\ srcTyped = FALSE
  /\ VerifyIdle /\ ExtractIdle /\ OffsetsIdle /\ LaterIdle
  /\ fpc = "idle"
  /\ freg \in [Subjects -> SubjectVersions]
  /\ fbad \in {b \in SUBSET Fetches : Cardinality(b) <= MaxBadFetches}
  /\ fstr \in ScanContents
  /\ fret = NoMatch

\* const diag = await findSubjectBySchema(client, schemaStr)
FindRun ==
  /\ fpc = "idle"
  /\ fret' = findSubjectBySchema(freg, fbad, fstr, fmax)
  /\ fpc' = "done"
  /\ UNCHANGED <<freg, fbad, fstr>>
  /\ UNCHANGED paste2Vars /\ UNCHANGED verifyVars /\ UNCHANGED extractVars /\ UNCHANGED offsetVars /\ UNCHANGED laterVars

NextFind == FindRun

SpecFind == InitFind /\ [][NextFind]_vars

\* --------------------------------- findSubjectBySchema with a small cap
\* The fetches the scan makes, in order: getSchema(s, v) for the versions of
\* a subject up to the first match.
RECURSIVE VersionFetches(_, _, _, _, _)
VersionFetches(r, bad, s, str, v) ==
  IF v > Len(r[s]) THEN <<>>
  ELSE <<<<s, v>>>> \o
       (IF <<s, v>> \notin bad /\ Extracted(StoredDoc(r[s][v])) = str
        THEN <<>>
        ELSE VersionFetches(r, bad, s, str, v + 1))

\* getVersions(s) and the version fetches for the subjects the loop reaches
\* before the break or the return.
RECURSIVE SubjectFetches(_, _, _, _, _)
SubjectFetches(r, bad, str, i, maxSubjects) ==
  IF i > Len(SubjectOrder) \/ i - 1 >= maxSubjects THEN <<>>
  ELSE LET s == SubjectOrder[i]
           listed == <<s, 0>> \notin bad
           own == <<<<s, 0>>>> \o (IF listed THEN VersionFetches(r, bad, s, str, 1) ELSE <<>>)
       IN IF listed /\ ScanVersions(r, bad, s, str, 1) # NoMatch
          THEN own
          ELSE own \o SubjectFetches(r, bad, str, i + 1, maxSubjects)

FetchLog(r, bad, str, maxSubjects) ==
  <<ListFetch>> \o
  (IF ListFetch \in bad THEN <<>> ELSE SubjectFetches(r, bad, str, 1, maxSubjects))

\* The values of maxSubjects that cut a registry of this size short, and one
\* that does not.
ScanCaps == 0..Len(SubjectOrder)

InitFindCap ==
  /\ CopyPasteInit /\ reg = [s \in Subjects |-> <<>>] /\ srcTyped = FALSE
  /\ VerifyIdle /\ ExtractIdle /\ OffsetsIdle /\ MethodIdle /\ StoreIdle /\ SingleIdle
  /\ ConcIdle
  /\ fpc = "idle"
  /\ freg \in [Subjects -> SubjectVersions]
  /\ fbad \in {b \in SUBSET Fetches : Cardinality(b) <= MaxBadFetches - 1}
  /\ fstr \in ScanContents
  /\ fret = NoMatch
  /\ fmax \in ScanCaps /\ flog = <<>>

\* await findSubjectBySchema(client, schemaStr, maxSubjects)
FindRunCapped ==
  /\ fpc = "idle"
  /\ fret' = findSubjectBySchema(freg, fbad, fstr, fmax)
  /\ flog' = FetchLog(freg, fbad, fstr, fmax)
  /\ fpc' = "done"
  /\ UNCHANGED <<freg, fbad, fstr, fmax>>
  /\ UNCHANGED paste2Vars /\ UNCHANGED verifyVars /\ UNCHANGED extractVars
  /\ UNCHANGED offsetVars /\ UNCHANGED methodVars /\ UNCHANGED storeVars
  /\ UNCHANGED singleVars /\ UNCHANGED concVars

NextFindCap == FindRunCapped

SpecFindCap == InitFindCap /\ [][NextFindCap]_vars

\* ---------------------------------------------------- extractSchemaString
\* The function exercised on its own: the payload is drawn at the start, a
\* JSON document (a tree) or an object graph, then the function is applied.
XKeys == {"schema", "schemaString", "definition", "value", "a"}
XWrapKeys == {"schema", "a"}
XLeaves == {JStr("S1"), JStr("S2"), JStr(""), JNum("7"), JNull}
Flat ==
  {JObj(<<>>)}
  \cup {JObj(<<<<k, v>>>>) : k \in XKeys, v \in XLeaves}
  \cup {JObj(<<q[1], q[2]>>) :
          q \in {y \in (XKeys \X (XLeaves \ {JNull})) \X (XKeys \X (XLeaves \ {JNull})) :
                   y[1][1] # y[2][1]}}
\* A string property next to an object-valued one, in both orders.
Mixed ==
  UNION {{JObj(<<q[1], q[2]>>), JObj(<<q[2], q[1]>>)} :
           q \in {y \in (XKeys \X {JStr("S1"), JStr("")})
                          \X (XWrapKeys \X {JObj(<<<<k2, v2>>>>) :
                                              k2 \in XKeys, v2 \in {JStr("S2"), JNum("7")}}) :
                   y[1][1] # y[2][1]}}
RECURSIVE Nested(_)
Nested(d) ==
  IF d = 0 THEN Flat
  ELSE Nested(d - 1) \cup {JObj(<<<<k, o>>>>) : k \in XWrapKeys, o \in Nested(d - 1)}
Payloads == XLeaves \cup Nested(MaxDepth) \cup Mixed

\* Object graphs of two nodes, the payload being a reference to the first.
XGraphKeys == {"schema", "value", "a"}
XGraphValues == {JStr("S1"), JNum("7")} \cup {Ref(n) : n \in XNodes}
NodeProps ==
  {<<>>}
  \cup {<<<<k, v>>>> : k \in XGraphKeys, v \in XGraphValues}
  \cup {<<q[1], q[2]>> :
          q \in {y \in (XGraphKeys \X XGraphValues) \X (XGraphKeys \X XGraphValues) :
                   y[1][1] # y[2][1]}}

InitExtract ==
  /\ CopyPasteInit /\ reg = [s \in Subjects |-> <<>>] /\ srcTyped = FALSE
  /\ VerifyIdle /\ FindIdle /\ OffsetsIdle /\ LaterIdle
  /\ xpc = "call"
  /\ \/ xpayload \in Payloads /\ xheap = [n \in XNodes |-> <<>>]
     \/ xpayload = Ref("n1") /\ xheap \in [XNodes -> NodeProps]
  /\ xret = Undefined

\* const s = extractSchemaString(payload)
ExtractRun ==
  /\ xpc = "call"
  /\ xret' = IF xpayload.t = "ref" THEN extractSchemaStringAt(xheap, xpayload, 1)
             ELSE extractSchemaString(xpayload)
  /\ xpc' = "done"
  /\ UNCHANGED <<xpayload, xheap>>
  /\ UNCHANGED paste2Vars /\ UNCHANGED verifyVars /\ UNCHANGED findVars /\ UNCHANGED offsetVars /\ UNCHANGED laterVars

NextExtract == ExtractRun

SpecExtract == InitExtract /\ [][NextExtract]_vars

\* ------------------------------------------------------- copying again
\* The copy command has returned and the user invokes a copy command again,
\* whatever a paste is doing.
CopyAgain ==
  /\ cpc = "done"
  /\ cpc' = "idle" /\ cNode' = NoNode /\ cVersions' = <<>> /\ cIdx' = 0 /\ cAll' = <<>>
  /\ cFailed' = <<>>
  /\ UNCHANGED <<clipboard, copyMsg, anomalies, srcTyped>>
  /\ UNCHANGED pasteVars /\ UNCHANGED auxVars

NextRecopy ==
  \/ Next
  \/ CopyAgain

\* Repeated copies are followed with a target that holds the subject already
\* and registries that give at most one anomalous answer in the whole run.
InitRecopy ==
  /\ CopyPasteIdle /\ reg = Holding /\ srcTyped = FALSE
  /\ anomalies = MaxAnomalies - 1
  /\ VerifyIdle /\ FindIdle /\ ExtractIdle /\ OffsetsIdle /\ LaterIdle

SpecRecopy == InitRecopy /\ [][NextRecopy]_vars

\* ------------------------------------------------ ConnectClient.setOffsets
\* One call of setOffsets(name, body); the answers of the Connect worker are
\* free.  A status of 0 stands for a fetch that throws (no answer).
Req(verb, url, task, status) == [verb |-> verb, url |-> url, task |-> task, status |-> status]
Ok(status) == status >= 200 /\ status <= 299
JobAnswers == {200, 405, 409, 0}
Resolved(why) == [kind |-> "resolved", why |-> why, status |-> 0]
Rejected(why, status) == [kind |-> "rejected", why |-> why, status |-> status]
otherVars == <<paste2Vars, verifyVars, findVars, extractVars, laterVars>>

\* if (res.ok) { try { const j = await res.json(); ... } catch(e) {}
\*   return (await res.json()) as any; }: the body was read by the first
\* json(), so the second one throws and the promise is rejected with it.
ReturnJson == Rejected("TypeError: body already read", 0)
\* let bodyText; try { bodyText = await res.text() } catch { bodyText =
\* String(res.status) }; throw new Error(`Set offsets failed: ${res.status} ...`)
FinalError(status) == Rejected("Set offsets failed", status)

SetOffsets ==
  /\ opc = "idle"
  /\ opc' = "status"
  /\ UNCHANGED <<olog, ores, otasks, oti, oresults, oret>>
  /\ UNCHANGED otherVars

\* The status request at the start, whose answer is only logged; a throw is
\* caught.
OffsetsLogStatus ==
  /\ opc = "status"
  /\ \E a \in {200, 500, 0} : olog' = Append(olog, Req("GET", "status", 0, a))
  /\ opc' = "patch"
  /\ UNCHANGED <<ores, otasks, oti, oresults, oret>>
  /\ UNCHANGED otherVars

\* One job-level request: a fetch that throws rejects the promise, a success
\* status ends the method at the return, another status goes on to next(a).
JobRequest(verb, a, next) ==
  /\ olog' = Append(olog, Req(verb, "offsets", 0, a))
  /\ IF a = 0
     THEN opc' = "done" /\ oret' = Rejected("fetch failed", 0) /\ ores' = ores
     ELSE IF Ok(a)
     THEN opc' = "done" /\ oret' = ReturnJson /\ ores' = a
     ELSE opc' = next /\ oret' = oret /\ ores' = a
  /\ UNCHANGED <<otasks, oti, oresults>>
  /\ UNCHANGED otherVars

\* let res = await fetch(url, { method: 'PATCH', ... }); whatever the failure
\* status, the PUT follows.
OffsetsPatch ==
  /\ opc = "patch"
  /\ \E a \in JobAnswers : JobRequest("PATCH", a, "put")

\* res = await fetch(url, { method: 'PUT', ... }); if (res.status === 405)
\* the POST follows, else the per-task requests.
OffsetsPut ==
  /\ opc = "put"
  /\ \E a \in JobAnswers : JobRequest("PUT", a, IF a = 405 THEN "post" ELSE "taskStatus")

OffsetsPost ==
  /\ opc = "post"
  /\ \E a \in JobAnswers : JobRequest("POST", a, "taskStatus")

\* const taskId = t.id || (t.task && t.task.id) || t.taskId || t: the id 0 is
\* falsy, so the task object itself goes into the URL.
TaskPath(id) == IF id = 0 THEN "tasks/[object Object]/offsets" ELSE "tasks/{id}/offsets"

\* The status request of the per-task fallback: a throw or a failure status
\* or an empty task list lead to the final error.
OffsetsTaskStatus ==
  /\ opc = "taskStatus"
  /\ \/ \E a \in {500, 0} :
          /\ olog' = Append(olog, Req("GET", "status", 0, a))
          /\ opc' = "done" /\ oret' = FinalError(ores)
          /\ UNCHANGED <<otasks, oti>>
     \/ \E n \in 0..MaxTasks :
          /\ olog' = Append(olog, Req("GET", "status", 0, 200))
          /\ otasks' = [i \in 1..n |-> i - 1]
          /\ IF n = 0
             THEN opc' = "done" /\ oret' = FinalError(ores) /\ oti' = oti
             ELSE opc' = "taskPut" /\ oret' = oret /\ oti' = 1
  /\ UNCHANGED <<ores, oresults>>
  /\ UNCHANGED otherVars

\* r => !(r && r.status && r.status >= 400)
TaskSucceeded(r) == ~(r.status >= 400)

\* One round of for (const t of tasks): a PUT to the task's offsets; its
\* result is pushed; a fetch that throws leaves the loop for the final error.
\* After the last task: results when any task succeeded, else the final error.
OffsetsTaskPut ==
  /\ opc = "taskPut"
  /\ \E a \in {200, 409, 0} :
       LET t == otasks[oti]
           results == Append(oresults, [status |-> a])
       IN /\ olog' = Append(olog, Req("PUT", TaskPath(t), t, a))
          /\ IF a = 0
             THEN opc' = "done" /\ oret' = FinalError(ores) /\ UNCHANGED <<oti, oresults>>
             ELSE /\ oresults' = results
                  /\ oti' = oti + 1
                  /\ IF oti < Len(otasks)
                     THEN opc' = "taskPut" /\ oret' = oret
                     ELSE /\ opc' = "done"
                          /\ oret' = IF \E i \in 1..Len(results) : TaskSucceeded(results[i])
                                      THEN Resolved("results")
                                      ELSE FinalError(ores)
  /\ UNCHANGED <<ores, otasks>>
  /\ UNCHANGED otherVars

NextOffsets ==
  \/ SetOffsets
  \/ OffsetsLogStatus
  \/ OffsetsPatch
  \/ OffsetsPut
  \/ OffsetsPost
  \/ OffsetsTaskStatus
  \/ OffsetsTaskPut

SpecOffsets == Init /\ [][NextOffsets]_vars

\* ------------------------------------------ ConnectClient.setOffsetsMethod
\* Calls of setOffsetsMethod(name, body, method), one after the other, against
\* a Connect worker whose connector is stopped at some point.
MaxCalls == 3
MethodVerbs == {"PUT", "POST", "PATCH"}
Answer(status, body) == [status |-> status, body |-> body]

\* What the worker answers to a request on /connectors/{name}/offsets: to a
\* PATCH 409 unless the connector is STOPPED, then 200 with a JSON message (or
\* a body that is no JSON); to another verb 404 or 405.  A status of 0
\* stands for a fetch that throws.
WorkerAnswers(verb, state) ==
  IF verb = "PATCH"
  THEN IF state # "STOPPED" THEN {Answer(409, "json")}
       ELSE {Answer(200, "json"), Answer(200, "none")}
  ELSE {Answer(404, "json"), Answer(405, "none")}
MethodAnswers(verb, state) == WorkerAnswers(verb, state) \cup {Answer(0, "none")}

\* throw new Error(`setOffsets ${method} failed: ${res.status}`)
MethodError(verb, status) == Rejected("setOffsets " \o verb \o " failed", status)

\* if (res.ok) { try { const j = await res.json(); ...; return j; }
\*               catch(e) { return undefined; } } ...; throw new Error(...)
MethodReturn(verb, a) ==
  IF a.status = 0 THEN Rejected("fetch failed", 0)
  ELSE IF Ok(a.status)
  THEN IF a.body = "json" THEN Resolved("body") ELSE Resolved("undefined")
  ELSE MethodError(verb, a.status)

MethodReq(k, verb, conn, a) ==
  [call |-> k, verb |-> verb, url |-> "offsets", conn |-> conn,
   status |-> a.status, body |-> a.body]
methodRest == <<paste2Vars, verifyVars, findVars, extractVars, offsetVars, storeVars, capVars, singleVars, concVars>>

SetOffsetsMethod ==
  /\ mpc \in {"idle", "done"}
  /\ Len(mrets) < MaxCalls
  /\ \E verb \in MethodVerbs : mverb' = verb
  /\ mpc' = "fetch"
  /\ UNCHANGED <<mconn, mlog, mrets>>
  /\ UNCHANGED methodRest

\* A variant that answers a failure of the given verb with a PUT.
MethodFetchFallback ==
  /\ mpc = "fetch"
  /\ \E a \in MethodAnswers(mverb, mconn) :
       LET k == Len(mrets) + 1
           first == Append(mlog, MethodReq(k, mverb, mconn, a))
       IN IF a.status # 0 /\ ~Ok(a.status) /\ mverb # "PUT"
          THEN \E b \in MethodAnswers("PUT", mconn) :
                 /\ mlog' = Append(first, MethodReq(k, "PUT", mconn, b))
                 /\ mrets' = Append(mrets, [verb |-> mverb, ret |-> MethodReturn("PUT", b)])
          ELSE /\ mlog' = first
               /\ mrets' = Append(mrets, [verb |-> mverb, ret |-> MethodReturn(mverb, a)])
  /\ mpc' = "done"
  /\ UNCHANGED <<mverb, mconn>>
  /\ UNCHANGED methodRest

\* const res = await fetch(url, { method, ... }) and what follows it.
MethodFetch ==
  /\ mpc = "fetch"
  /\ \E a \in MethodAnswers(mverb, mconn) :
       /\ mlog' = Append(mlog, MethodReq(Len(mrets) + 1, mverb, mconn, a))
       /\ mrets' = Append(mrets, [verb |-> mverb, ret |-> MethodReturn(mverb, a)])
  /\ mpc' = "done"
  /\ UNCHANGED <<mverb, mconn>>
  /\ UNCHANGED methodRest

\* The connector is stopped (PUT /connectors/{name}/stop by the user).
StopConnector ==
  /\ mconn = "RUNNING"
  /\ mconn' = "STOPPED"
  /\ UNCHANGED <<mpc, mverb, mlog, mrets>>
  /\ UNCHANGED methodRest

NextMethod ==
  \/ SetOffsetsMethod
  \/ MethodFetch
  \/ StopConnector

SpecMethod == Init /\ [][NextMethod]_vars

\* ----------------------------------------------------- ConnectionStore
\* The operations of ConnectionStore called one after the other (each call
\* is awaited before the next one is made).
MaxSecretLen == 2
SecretChars == {97, 64}
RECURSIVE SeqsUpTo(_, _)
SeqsUpTo(S, n) ==
  IF n = 0 THEN {<<>>}
  ELSE LET shorter == SeqsUpTo(S, n - 1)
       IN shorter \cup {Append(q, c) : q \in shorter, c \in S}
\* The secret argument: omitted, or a string (the empty one included).
SecretArgs == {NoStr} \cup {Str(q) : q \in SeqsUpTo(SecretChars, MaxSecretLen)}

Pad == 64
\* Buffer.from(secret).toString('base64'): three bytes give four digits, the
\* last group is padded with '='.
RECURSIVE ToBase64(_)
ToBase64(b) ==
  CASE Len(b) = 0 -> <<>>
    [] Len(b) = 1 -> <<b[1] \div 4, (b[1] % 4) * 16, Pad, Pad>>
    [] Len(b) = 2 -> <<b[1] \div 4, (b[1] % 4) * 16 + b[2] \div 16, (b[2] % 16) * 4, Pad>>
    [] OTHER -> <<b[1] \div 4, (b[1] % 4) * 16 + b[2] \div 16,
                  (b[2] % 16) * 4 + b[3] \div 64, b[3] % 64>>
                \o ToBase64(SubSeq(b, 4, Len(b)))

\* Buffer.from(password, 'base64').toString()
RECURSIVE FromBase64(_)
FromBase64(d) ==
  IF Len(d) < 4 THEN <<>>
  ELSE LET b1 == d[1] * 4 + d[2] \div 16
           b2 == (d[2] % 16) * 16 + d[3] \div 4
           b3 == (d[3] % 4) * 64 + d[4]
       IN CASE d[3] = Pad -> <<b1>>
            [] d[4] = Pad -> <<b1, b2>>
            [] OTHER -> <<b1, b2, b3>> \o FromBase64(SubSeq(d, 5, Len(d)))

\* JavaScript truthiness of a string-or-undefined value.
TruthyArg(x) == x.def /\ x.chars # <<>>

Conn(id, password) == [id |-> id, password |-> password]
\* JSON.stringify(conns): a property whose value is undefined is left out.
StringifyConn(c) ==
  [keys |-> IF c.password.def THEN {"id", "password"} ELSE {"id"},
   id |-> c.id,
   password |-> IF c.password.def THEN c.password.chars ELSE <<>>]
StringifyConns(conns) == [i \in 1..Len(conns) |-> StringifyConn(conns[i])]
\* JSON.parse(raw)
ParseConn(t) ==
  Conn(t.id, IF "password" \in t.keys THEN Str(t.password) ELSE NoStr)
ParseConns(raw) == [i \in 1..Len(raw) |-> ParseConn(raw[i])]

\* What listConnections returns: the setting when it has entries, else the
\* globalState list.
listConnections(settings, global) ==
  IF Len(settings) > 0 THEN settings ELSE ParseConns(global)
\* The setting after listConnections: a non-empty globalState list is
\* migrated into an empty setting.
SettingsAfterList(settings, global) ==
  IF Len(settings) > 0 THEN settings ELSE ParseConns(global)

Find(conns, id) == {i \in 1..Len(conns) : conns[i].id = id}
\* What getSecret(id) returns: the decoded password of the listed
\* connection, else the secure-storage entry, else undefined.
getSecret(settings, global, secrets, id) ==
  LET conns == listConnections(settings, global)
      hits == Find(conns, id)
      conn == conns[CHOOSE i \in hits : \A j \in hits : i <= j]
  IN IF hits # {} /\ TruthyArg(conn.password)
     THEN Str(FromBase64(conn.password.chars))
     ELSE IF TruthyArg(secrets[id]) THEN secrets[id] ELSE NoStr

RECURSIVE FilterOut(_, _)
FilterOut(conns, id) ==
  IF conns = <<>> THEN <<>>
  ELSE IF Head(conns).id = id THEN FilterOut(Tail(conns), id)
  ELSE <<Head(conns)>> \o FilterOut(Tail(conns), id)

storeRest == <<paste2Vars, verifyVars, findVars, extractVars, offsetVars, methodVars, capVars, singleVars, concVars>>

\* saveConnections(conns): globalState and the setting are both written.
SaveConnections(conns) ==
  /\ sGlobal' = StringifyConns(conns)
  /\ sSettings' = conns

\* addConnection(conn, secret) for an id that was not used before.
AddConnection ==
  /\ \E id \in ConnIds, secret \in SecretArgs :
       /\ sHist[id].op = "none"
       /\ LET conns == listConnections(sSettings, sGlobal)
              conn == IF TruthyArg(secret)
                      THEN Conn(id, Str(ToBase64(secret.chars)))
                      ELSE Conn(id, NoStr)
          IN SaveConnections(Append(conns, conn))
       /\ sSecrets' = IF TruthyArg(secret) THEN [sSecrets EXCEPT ![id] = secret] ELSE sSecrets
       /\ sHist' = [sHist EXCEPT ![id] = [op |-> "add", secret |-> secret]]
  /\ UNCHANGED sret
  /\ UNCHANGED storeRest

\* A variant of removeConnection that leaves the secure-storage entry.
RemoveConnectionKeepSecret ==
  /\ \E id \in ConnIds :
       /\ SaveConnections(FilterOut(listConnections(sSettings, sGlobal), id))
       /\ sHist' = [sHist EXCEPT ![id] = [op |-> "remove", secret |-> NoStr]]
  /\ UNCHANGED <<sSecrets, sret>>
  /\ UNCHANGED storeRest

\* removeConnection(id)
RemoveConnection ==
  /\ \E id \in ConnIds :
       /\ SaveConnections(FilterOut(listConnections(sSettings, sGlobal), id))
       /\ sSecrets' = [sSecrets EXCEPT ![id] = NoStr]
       /\ sHist' = [sHist EXCEPT ![id] = [op |-> "remove", secret |-> NoStr]]
  /\ UNCHANGED sret
  /\ UNCHANGED storeRest

\* const list = await store.listConnections()
ListConnections ==
  /\ sret' = [call |-> "listConnections", id |-> "",
              list |-> listConnections(sSettings, sGlobal), secret |-> NoStr]
  /\ sSettings' = SettingsAfterList(sSettings, sGlobal)
  /\ UNCHANGED <<sGlobal, sSecrets, sHist>>
  /\ UNCHANGED storeRest

\* const secret = await store.getSecret(id)
GetSecret ==
  /\ \E id \in ConnIds :
       sret' = [call |-> "getSecret", id |-> id, list |-> <<>>,
                secret |-> getSecret(sSettings, sGlobal, sSecrets, id)]
  /\ sSettings' = SettingsAfterList(sSettings, sGlobal)
  /\ UNCHANGED <<sGlobal, sSecrets, sHist>>
  /\ UNCHANGED storeRest

NextStore ==
  \/ AddConnection
  \/ RemoveConnection
  \/ ListConnections
  \/ GetSecret

SpecStore == Init /\ [][NextStore]_vars

\* ------------------------------- pasteSchema: the single-schema fallback
\* connectAdmin.pasteSchema on a clipboard object that has no versions array
\* (a value that the copy commands of this extension do not write, but that
\* the handler provides for): one payload under clipboard.schema.
SingleAttempts == 3
SingleDelayMs == 400
SinglePayloads ==
  {[subject |-> SrcSubject, schema |-> doc] :
     doc \in {StdDoc(1, TRUE), StdDoc(1, FALSE), JStr(Content(1)), OddDoc(1)}}
GCall(call, res) == [call |-> call, res |-> res, ms |-> 0]
GSleep(ms) == [call |-> "sleep", res |-> "", ms |-> ms]
singleRest ==
  <<paste2Vars, verifyVars, findVars, extractVars, offsetVars, methodVars, storeVars, capVars,
    concVars>>

InitSingle ==
  /\ CopyPasteInit /\ reg = [s \in Subjects |-> <<>>]
  /\ VerifyIdle /\ FindIdle /\ ExtractIdle /\ OffsetsIdle
  /\ MethodIdle /\ StoreIdle /\ CapIdle /\ ConcIdle
  /\ gpc = "idle" /\ gclip \in SinglePayloads /\ gattempt = 0 /\ glog = <<>> /\ gmsg = "none"

\* let schemaStr = extractSchemaString(clipboard.schema ?? clipboard);
\* if (!schemaStr) return showErrorMessage('Copied schema payload not understood')
PasteSingle ==
  /\ gpc = "idle"
  /\ IF TruthyStr(extractSchemaString(gclip.schema))
     THEN gpc' = "register" /\ gmsg' = gmsg
     ELSE gpc' = "done" /\ gmsg' = "error: Copied schema payload not understood"
  /\ UNCHANGED <<gclip, gattempt, glog>>
  /\ UNCHANGED singleRest

\* A variant in which a failed registration is followed by the verification.
SingleRegisterThenVerify ==
  /\ gpc = "register"
  /\ \E res \in {"ok", "throw"} : glog' = Append(glog, GCall("registerSchema", res))
  /\ gpc' = "getVersions" /\ gattempt' = 1 /\ gmsg' = gmsg
  /\ UNCHANGED gclip
  /\ UNCHANGED singleRest

\* await client.registerSchema(target, payload); a throw goes to the outer
\* catch: showErrorMessage(`Failed to paste schema: ...`).
SingleRegister ==
  /\ gpc = "register"
  /\ \E res \in {"ok", "throw"} :
       /\ glog' = Append(glog, GCall("registerSchema", res))
       /\ IF res = "ok"
          THEN gpc' = "getVersions" /\ gattempt' = 1 /\ gmsg' = gmsg
          ELSE gpc' = "done" /\ gattempt' = gattempt /\ gmsg' = "error: Failed to paste schema"
  /\ UNCHANGED gclip
  /\ UNCHANGED singleRest

\* const tv = await client.getVersions(target); if (tv && tv.length > 0)
\* { showInformationMessage(...); return; }; a throw is logged.
SingleGetVersions ==
  /\ gpc = "getVersions"
  /\ \/ \E n \in 0..MaxVer :
          /\ glog' = Append(glog, GCall("getVersions", IF n > 0 THEN "some" ELSE "empty"))
          /\ IF n > 0
             THEN gpc' = "done" /\ gmsg' = "info: Pasted schema to T (versions: N)"
             ELSE gpc' = "sleep" /\ gmsg' = gmsg
     \/ /\ glog' = Append(glog, GCall("getVersions", "throw"))
        /\ gpc' = "sleep" /\ gmsg' = gmsg
  /\ UNCHANGED <<gclip, gattempt>>
  /\ UNCHANGED singleRest

\* await new Promise(r => setTimeout(r, 400 * attempt)); attempt++; after
\* the loop: showWarningMessage('Schema registered but target reports no
\* versions for T').
SingleSleep ==
  /\ gpc = "sleep"
  /\ glog' = Append(glog, GSleep(SingleDelayMs * gattempt))
  /\ gattempt' = gattempt + 1
  /\ IF gattempt + 1 <= SingleAttempts
     THEN gpc' = "getVersions" /\ gmsg' = gmsg
     ELSE gpc' = "done" /\ gmsg' = "warning: Schema registered but target reports no versions"
  /\ UNCHANGED gclip
  /\ UNCHANGED singleRest

NextSingle ==
  \/ PasteSingle
  \/ SingleRegister
  \/ SingleGetVersions
  \/ SingleSleep

SpecSingle == InitSingle /\ [][NextSingle]_vars

\* ---------------------------------------------------- concurrent copies
\* Two copy commands running at once, each on its own node (handler p on
\* the p-th subject, whose versions have schema texts of their own); the
\* handlers interleave at their awaits and share only the global clipboard.
MaxCopyVer == 2
CopySubject(p) == SubjectOrder[p]
CopyDoc(p, v) == StdDoc((p - 1) * MaxCopyVer + v, FALSE)
copyLocals == <<cpc, cNode, cVersions, cIdx, cAll, copyMsg, cFailed>>
concRest ==
  <<copyLocals, pasteVars, anomalies, srcTyped, verifyVars, findVars, extractVars,
    offsetVars, methodVars, storeVars, capVars, singleVars>>
Ended(p, stored) == [by |-> p, stored |-> stored]

\* A copy command is invoked: copySchema on a subject node (version 0) or on
\* a version node, or copySchemaVersion on a version node.
CopyInvoke(p) ==
  /\ kpc[p] = "idle"
  /\ \E c \in {"copySchema", "copySchemaVersion"}, v \in 0..MaxCopyVer :
       /\ c = "copySchemaVersion" => v > 0
       /\ kNode' = [kNode EXCEPT ![p] = [cmd |-> c, subject |-> CopySubject(p), version |-> v]]
       /\ kpc' = [kpc EXCEPT ![p] = IF v = 0 THEN "list" ELSE "one"]
  /\ UNCHANGED <<clipboard, kVersions, kIdx, kAll, kEnded>>
  /\ UNCHANGED concRest

\* if (all.length === 0) return showErrorMessage(...);
\* (global as any).connectAdminSchemaClipboard = { subject, versions: all }
CopyStoreBy(p, all) ==
  /\ IF Len(all) = 0
     THEN clipboard' = clipboard /\ kEnded' = Append(kEnded, Ended(p, FALSE))
     ELSE /\ clipboard' = [subject |-> kNode[p].subject, versions |-> all]
          /\ kEnded' = Append(kEnded, Ended(p, TRUE))
  /\ kpc' = [kpc EXCEPT ![p] = "done"]

\* The getSchema of a version node and the end of the handler.  When it
\* throws, copySchema logs it and has nothing to store, and
\* copySchemaVersion shows 'Failed to copy schema version'.
CopyOneBy(p) ==
  /\ kpc[p] = "one"
  /\ \E how \in {"std", "throw"} :
       LET all == IF how = "throw" THEN <<>>
                  ELSE <<[version |-> kNode[p].version,
                          schema |-> CopyDoc(p, kNode[p].version)]>>
       IN kAll' = [kAll EXCEPT ![p] = all] /\ CopyStoreBy(p, all)
  /\ UNCHANGED <<kNode, kVersions, kIdx>>
  /\ UNCHANGED concRest

\* const versions = await client.getVersions(subject)
CopyListBy(p) ==
  /\ kpc[p] = "list"
  /\ \/ \E n \in 0..MaxCopyVer :
          /\ kVersions' = [kVersions EXCEPT ![p] = [i \in 1..n |-> i]]
          /\ IF n = 0
             THEN /\ kpc' = [kpc EXCEPT ![p] = "done"]
                  /\ kEnded' = Append(kEnded, Ended(p, FALSE))
                  /\ kIdx' = kIdx
             ELSE /\ kpc' = [kpc EXCEPT ![p] = "fetch"]
                  /\ kEnded' = kEnded
                  /\ kIdx' = [kIdx EXCEPT ![p] = 1]
     \/ /\ kpc' = [kpc EXCEPT ![p] = "done"]
        /\ kEnded' = Append(kEnded, Ended(p, FALSE))
        /\ UNCHANGED <<kVersions, kIdx>>
  /\ UNCHANGED <<clipboard, kNode, kAll>>
  /\ UNCHANGED concRest

\* A variant in which the handler fills the array of the clipboard entry
\* while it fetches.
CopyFetchIntoClipboard(p) ==
  /\ kpc[p] = "fetch" /\ kIdx[p] <= Len(kVersions[p])
  /\ \E how \in {"std", "throw"} :
       LET v == kVersions[p][kIdx[p]]
           all == IF how = "throw" THEN kAll[p]
                  ELSE Append(kAll[p], [version |-> v, schema |-> CopyDoc(p, v)])
       IN /\ kAll' = [kAll EXCEPT ![p] = all]
          /\ clipboard' = [subject |-> kNode[p].subject, versions |-> all]
  /\ kIdx' = [kIdx EXCEPT ![p] = @ + 1]
  /\ UNCHANGED <<kpc, kNode, kVersions, kEnded>>
  /\ UNCHANGED concRest

\* One round of for (const v of versions): all.push or the logged failure.
CopyFetchBy(p) ==
  /\ kpc[p] = "fetch" /\ kIdx[p] <= Len(kVersions[p])
  /\ \E how \in {"std", "throw"} :
       LET v == kVersions[p][kIdx[p]]
       IN kAll' = [kAll EXCEPT ![p] =
                     IF how = "throw" THEN @
                     ELSE Append(@, [version |-> v, schema |-> CopyDoc(p, v)])]
  /\ kIdx' = [kIdx EXCEPT ![p] = @ + 1]
  /\ UNCHANGED <<clipboard, kpc, kNode, kVersions, kEnded>>
  /\ UNCHANGED concRest

\* After the loop: the store.
CopyFinishBy(p) ==
  /\ kpc[p] = "fetch" /\ kIdx[p] > Len(kVersions[p])
  /\ CopyStoreBy(p, kAll[p])
  /\ UNCHANGED <<kNode, kVersions, kIdx, kAll>>
  /\ UNCHANGED concRest

NextConc ==
  \E p \in Copiers :
    \/ CopyInvoke(p)
    \/ CopyOneBy(p)
    \/ CopyListBy(p)
    \/ CopyFetchBy(p)
    \/ CopyFinishBy(p)

SpecConc == Init /\ [][NextConc]_vars

\* ------------------------------------------------------------ properties
\* The paste ran its version loop to the end of the handler.
PasteEnded == ppc = "done" /\ cmd # "none"

IsCall(e) == e.ev \in {"registered", "registerFailed"}
\* The registerSchema calls of the paste, in the order they were issued.
RegCalls == SelectSeq(trail, IsCall)
\* The positions in trail of the events of kind k for version v.
EventsOf(k, v) == {n \in 1..Len(trail) : trail[n].ev = k /\ trail[n].ver = v}
CallsOf(v) == EventsOf("registered", v) \cup EventsOf("registerFailed", v)
HasEvent(k) == \E n \in 1..Len(trail) : trail[n].ev = k
Recognised(i) == TruthyStr(SchemaStrAt(i))
LastMsg == msgs[Len(msgs)]

\* C1: a multi-version paste issues its registerSchema calls in ascending
\* version number order, whatever order the source listed the versions in.
C1_RegistersAscending ==
  \A i, j \in 1..Len(RegCalls) : i < j => RegCalls[i].ver <= RegCalls[j].ver

\* C2: a version whose id read-back failed is never held as registered: in the
\* catch that follows a failed getSchemaById the registered flag is not true.
C2_ConfirmedWrite ==
  (ppc = "diag" /\ diagRet = "round" /\ trail[Len(trail)].ev = "byIdFailed")
    => ~registered

\* C3: when a paste has ended, every version of the clipboard entry has its
\* own outcome record (a [paste] line naming the version: skipped or
\* registered); no version is dropped without one.
C3_OutcomePerVersion ==
  PasteEnded =>
    \A i \in 1..Len(Versions) :
      EventsOf("skip", Versions[i].version) \cup EventsOf("registered", Versions[i].version) # {}

\* C4: a copy of the three versions 1, 2, 3 of the source subject, pasted under
\* the new name into a target that accepts every registration and serves
\* every read, gives three registrations, a verification that lists three
\* versions, and the target holding the source's schema texts in version order.
C4_Scenario ==
  /\ PasteEnded /\ target = "user-v1-copy"
  /\ Len(Versions) = 3 /\ \A i \in 1..3 : Versions[i].version = i /\ Recognised(i)
  /\ ~HasEvent("registerFailed") /\ ~HasEvent("byIdFailed") /\ ~HasEvent("verifyThrew")
  /\ \E n \in 1..Len(trail) : trail[n].ev = "verifyList" /\ trail[n].ver > 0

C4_EndToEnd ==
  C4_Scenario =>
    /\ \A i \in 1..3 : Cardinality(EventsOf("registered", i)) = 1
    /\ Len(RegCalls) = 3
    /\ LastMsg = InfoPastedCount(3)
    /\ reg[target] = [i \in 1..3 |-> Content(i)]
    /\ \A i \in 1..3 : extractSchemaString(StoredDoc(reg[target][i])) = SchemaStrAt(i)

C4_Witness == C4_Scenario /\ reg[target] = <<"s1", "s2", "s3">>

\* C5: a version whose payload gives no schema string is skipped without a
\* registerSchema call, and every other version is still processed.
C5_SkipUnrecognised ==
  PasteEnded =>
    \A i \in 1..Len(Versions) :
      IF Recognised(i)
      THEN CallsOf(Versions[i].version) # {}
      ELSE /\ CallsOf(Versions[i].version) = {}
           /\ Cardinality(EventsOf("skip", Versions[i].version)) = 1

C5_Witness ==
  /\ PasteEnded /\ Len(Versions) = 3
  /\ Recognised(1) /\ ~Recognised(2) /\ Recognised(3)
  /\ EventsOf("registered", Versions[1].version) # {}
  /\ EventsOf("registered", Versions[3].version) # {}
  /\ EventsOf("skip", Versions[2].version) # {}

\* C6: a failed registration or read-back of one version never ends the batch:
\* every later version that has a schema string is still attempted, and the
\* handler runs on to its verification read.
FailedAt(i) ==
  EventsOf("registerFailed", Versions[i].version) \cup EventsOf("byIdFailed", Versions[i].version) # {}

C6_FailureNeverAborts ==
  PasteEnded =>
    /\ \A i, j \in 1..Len(Versions) :
         (i < j /\ FailedAt(i) /\ Recognised(j)) => CallsOf(Versions[j].version) # {}
    /\ (\E i \in 1..Len(Versions) : FailedAt(i)) =>
         (HasEvent("verifyList") \/ HasEvent("verifyThrew"))

C6_Witness ==
  /\ PasteEnded /\ Len(Versions) >= 2
  /\ Cardinality(EventsOf("registerFailed", Versions[1].version)) = MaxRegisterAttempts
  /\ EventsOf("registered", Versions[2].version) # {}

\* C7 as stated: every clipboard version gets at least one and at most three
\* registerSchema calls.
C7_BudgetForEveryVersion ==
  PasteEnded =>
    \A i \in 1..Len(Versions) :
      Cardinality(CallsOf(Versions[i].version)) \in 1..MaxRegisterAttempts

\* C7, amended: a version that has a schema string gets at least one and at
\* most three registerSchema calls, numbered 1, 2, 3; a call that returned
\* is the last one for its version; a version without a schema string gets
\* none.
C7_RetryBudget ==
  /\ \A i \in 1..Len(Versions) :
       LET calls == CallsOf(Versions[i].version)
       IN /\ Cardinality(calls) <= MaxRegisterAttempts
          /\ {trail[n].att : n \in calls} = 1..Cardinality(calls)
          /\ \A n \in EventsOf("registered", Versions[i].version) :
               \A m \in calls : m <= n
  /\ PasteEnded =>
       \A i \in 1..Len(Versions) :
         IF Recognised(i)
         THEN Cardinality(CallsOf(Versions[i].version)) >= 1
         ELSE CallsOf(Versions[i].version) = {}

C7_Witness ==
  /\ PasteEnded
  /\ \E i \in 1..Len(Versions) :
       /\ Cardinality(EventsOf("registerFailed", Versions[i].version)) = MaxRegisterAttempts
       /\ EventsOf("registered", Versions[i].version) = {}

IsVerifyRead(e) == e.ev \in {"verifyList", "verifyThrew"}
VerifyReads == SelectSeq(trail, IsVerifyRead)
\* The final read confirmed the subject: it returned at least one version.
Verified == \E n \in 1..Len(trail) : trail[n].ev = "verifyList" /\ trail[n].ver >= 1
IsInfo(m) == m.sev = "info"
\* The information message of the paste (its result message).
ResultMsg == SelectSeq(msgs, IsInfo)[1]

Accepted == HasEvent("registered")

C9_UnverifiedReportedDistinctly ==
  (PasteEnded /\ Accepted /\ ~Verified) =>
    ResultMsg.text # InfoPastedCount(0).text

\* C10 as stated: the diagnostic search runs only after the verification of
\* the paste has failed.
C10_OnlyAfterVerificationFailed ==
  \A n \in 1..Len(trail) :
    trail[n].ev = "diag" =>
      \E m \in 1..(n - 1) : trail[m].ev = "verifyThrew" \/ (trail[m].ev = "verifyList" /\ trail[m].ver = 0)

\* C10, amended: the diagnostic search runs only right after a registerSchema
\* call threw, an id read-back threw or the final version-list read threw; a
\* paste without such a failure never runs it.
C10_OnlyOnFailurePath ==
  \A n \in 1..Len(trail) :
    trail[n].ev = "diag" =>
      n > 1 /\ trail[n - 1].ev \in {"registerFailed", "byIdFailed", "verifyThrew"}

C10_Witness ==
  /\ PasteEnded /\ Verified
  /\ \E n \in 2..Len(trail) : trail[n].ev = "diag" /\ trail[n - 1].ev = "registerFailed"

\* A registerSchema call of the paste, returned or thrown.
IsRegisterCall(e) == e.ev \in {"registered", "registerFailed"}

\* C28: after a registerSchema call for a clipboard version has returned, the
\* paste makes no further registerSchema call for that version, whether the
\* read-back by id then succeeds or fails.
C28_NoCallAfterSuccess ==
  \A n \in 1..Len(trail) :
    trail[n].ev = "registered" =>
      \A m \in (n + 1)..Len(trail) :
        IsRegisterCall(trail[m]) => trail[m].ver # trail[n].ver

\* A version was registered at the first attempt, its read-back by id failed,
\* and the paste went on to register another version.
C28_Witness ==
  \E n \in 1..Len(trail) :
    /\ n + 2 <= Len(trail)
    /\ trail[n].ev = "registered" /\ trail[n].att = 1
    /\ trail[n + 1].ev = "byIdFailed" /\ trail[n + 1].ver = trail[n].ver
    /\ \E m \in (n + 2)..Len(trail) :
         trail[m].ev = "registered" /\ trail[m].ver # trail[n].ver

\* ------------------------------------- properties: verifySubjectRegistered
IsSleep(e) == e.call = "sleep"
IsGetVersions(e) == e.call = "getVersions"
IsListSubjects(e) == e.call = "listSubjects"
Sleeps == SelectSeq(vlog, IsSleep)
\* A read that shows the subject: enough versions, or the name in the list.
IsSuccess(e) == e.res \in {"enough", "present"}
VSucceeded == \E n \in 1..Len(vlog) : IsSuccess(vlog[n])
\* The k-th delay: initialDelay doubled k-1 times, capped.
DelayOf(k) == Min(MaxDelayMs, InitialDelayMs * 2^(k - 1))

\* C11: against a target that never shows the subject (by empty answers or by
\* errors) verifySubjectRegistered returns ok:false after exactly attempts
\* rounds (one getVersions and one listSubjects each), having slept after
\* every round 200, 400, 800, 1600, 2000, 2000 ms.
C11_NeverConsistent ==
  /\ \A k \in 1..Len(Sleeps) : Sleeps[k].ms = DelayOf(k)
  /\ (vpc = "done" /\ ~VSucceeded) =>
       /\ vret = [ok |-> FALSE, method |-> "none"]
       /\ Len(SelectSeq(vlog, IsGetVersions)) = VerifyAttempts
       /\ Len(SelectSeq(vlog, IsListSubjects)) = VerifyAttempts
       /\ \A n \in 1..Len(vlog) :
            vlog[n].call = CASE n % 3 = 1 -> "getVersions"
                             [] n % 3 = 2 -> "listSubjects"
                             [] OTHER -> "sleep"
       /\ [k \in 1..Len(Sleeps) |-> Sleeps[k].ms] = <<200, 400, 800, 1600, 2000, 2000>>

C11_Witness ==
  /\ vpc = "done" /\ ~vret.ok
  /\ Len(Sleeps) = VerifyAttempts
  /\ \E n \in 1..Len(vlog) : vlog[n].res = "throw"
  /\ \E n \in 1..Len(vlog) : vlog[n].res = "few"
  /\ \E n \in 1..Len(vlog) : vlog[n].res = "absent"

\* C12: the first read that shows the subject ends verifySubjectRegistered:
\* it returns ok:true by that read, within the attempts, and no read and no
\* sleep follows; a target consistent from the 3rd attempt on costs two
\* sleeps (200, 400) and nothing after the successful read.
C12_StopsAtFirstSuccess ==
  /\ \A n \in 1..Len(vlog) :
       IsSuccess(vlog[n]) =>
         /\ n = Len(vlog)
         /\ vpc = "done"
         /\ vret = [ok |-> TRUE, method |-> vlog[n].call]
         /\ Len(Sleeps) < VerifyAttempts
  /\ (vpc = "done" /\ VSucceeded /\ Len(Sleeps) = 2) =>
       /\ vret.ok
       /\ [k \in 1..Len(Sleeps) |-> Sleeps[k].ms] = <<200, 400>>
       /\ Len(vlog) \in {7, 8}

C12_Witness ==
  /\ vpc = "done" /\ vret.ok /\ vret.method = "getVersions"
  /\ Len(Sleeps) = 2 /\ Len(vlog) = 7
  /\ \A n \in 1..6 : ~IsSuccess(vlog[n])

\* What follows the n-th entry of the log: the next entry's call, or the
\* position of the function when the entry is the last one.
NextCall(n) == IF n < Len(vlog) THEN vlog[n + 1].call ELSE vpc

\* C25: in every attempt the version listing is read first; enough versions
\* end the function with ok by getVersions and the subject list is not read;
\* too few versions or an error are followed by the subject list, which ends
\* the function with ok by listSubjects when it has the name; an error of
\* either read is followed by the next step of the attempt, never by a return.
C25_TwoIndependentSignals ==
  /\ \A n \in 1..Len(vlog) :
       /\ IsGetVersions(vlog[n]) =>
            /\ n = 1 \/ IsSleep(vlog[n - 1])
            /\ IF vlog[n].res = "enough"
               THEN /\ n = Len(vlog) /\ vpc = "done"
                    /\ vret = [ok |-> TRUE, method |-> "getVersions"]
               ELSE NextCall(n) = "listSubjects"
       /\ IsListSubjects(vlog[n]) =>
            /\ n > 1 /\ IsGetVersions(vlog[n - 1]) /\ vlog[n - 1].res \in {"few", "throw"}
            /\ IF vlog[n].res = "present"
               THEN /\ n = Len(vlog) /\ vpc = "done"
                    /\ vret = [ok |-> TRUE, method |-> "listSubjects"]
               ELSE NextCall(n) = "sleep"
       /\ IsSleep(vlog[n]) => n > 2 /\ IsListSubjects(vlog[n - 1])
  /\ (vpc = "done" /\ ~VSucceeded) => Len(Sleeps) = VerifyAttempts

\* getVersions failed and the list lacked the name in the first attempt;
\* in the second, too few versions and then the name in the list.
C25_Witness ==
  /\ vpc = "done" /\ vret = [ok |-> TRUE, method |-> "listSubjects"]
  /\ Len(vlog) = 5
  /\ vlog[1].res = "throw" /\ vlog[2].res = "absent"
  /\ vlog[4].res = "few" /\ vlog[5].res = "present"

\* ----------------------------------------- properties: findSubjectBySchema
\* The documents the scan could fetch: listSubjects and the subject's version
\* listing returned, the subject is within maxSubjects, the version's fetch
\* returned.
FetchedAt(i, v) ==
  /\ ListFetch \notin fbad
  /\ i <= DefaultMaxSubjects
  /\ <<SubjectOrder[i], 0>> \notin fbad
  /\ v \in 1..Len(freg[SubjectOrder[i]])
  /\ <<SubjectOrder[i], v>> \notin fbad
FoundAt ==
  {iv \in (1..Len(SubjectOrder)) \X (1..MaxScanVer) :
     /\ FetchedAt(iv[1], iv[2])
     /\ extractSchemaString(StoredDoc(freg[SubjectOrder[iv[1]]][iv[2]])) = fstr}
Earlier(a, b) == a[1] < b[1] \/ (a[1] = b[1] /\ a[2] <= b[2])

ExtractedTree == xpc = "done" /\ xpayload.t # "ref"
\* The known shapes in their priority order, and what each yields.
ShapeMatches(payload, k) ==
  CASE k = 1 -> payload.t = "str"
    [] k = 2 -> IsStrProp(payload, "schema")
    [] k = 3 -> IsStrProp(payload, "schemaString")
    [] k = 4 -> Prop(payload, "schema").t = "obj" /\ IsStrProp(Prop(payload, "schema"), "schema")
    [] k = 5 -> IsStrProp(payload, "definition")
    [] k = 6 -> IsStrProp(payload, "value")
ShapeValue(payload, k) ==
  CASE k = 1 -> payload.s
    [] k = 2 -> Prop(payload, "schema").s
    [] k = 3 -> Prop(payload, "schemaString").s
    [] k = 4 -> Prop(Prop(payload, "schema"), "schema").s
    [] k = 5 -> Prop(payload, "definition").s
    [] k = 6 -> Prop(payload, "value").s
Shapes == 1..6
\* The positions of the object-valued properties whose search finds a string.
Descents(payload) ==
  {i \in 1..Len(payload.f) :
     payload.f[i][2].t = "obj" /\ TruthyStr(extractSchemaString(payload.f[i][2]))}

\* C14: extractSchemaString returns what the highest-priority matching shape
\* yields, in the order direct string, schema, schemaString, schema.schema,
\* definition, value; when none of them matches, what the first
\* object-valued property with a schema string yields, and undefined when
\* there is none.
C14_PriorityOrder ==
  ExtractedTree =>
    IF ~Truthy(xpayload) THEN xret = Undefined
    ELSE IF \E k \in Shapes : ShapeMatches(xpayload, k)
    THEN \E k \in Shapes :
           /\ ShapeMatches(xpayload, k)
           /\ \A j \in 1..(k - 1) : ~ShapeMatches(xpayload, j)
           /\ xret = ShapeValue(xpayload, k)
    ELSE IF xpayload.t = "obj" /\ Descents(xpayload) # {}
    THEN \E i \in Descents(xpayload) :
           /\ \A j \in Descents(xpayload) : i <= j
           /\ xret = extractSchemaString(xpayload.f[i][2])
    ELSE xret = Undefined

\* A payload of two shapes whose lower-priority one comes first in the object.
C14_Witness ==
  /\ ExtractedTree
  /\ xpayload = JObj(<<<<"value", JStr("S2")>>, <<"schemaString", JStr("S1")>>>>)
  /\ xret = "S1"

\* Every property of the payload and of its direct object-valued properties
\* is itself an object: a schema string, if any, sits at least two levels
\* deeper than the payload.
DeepOnly(payload) ==
  /\ payload.t = "obj" /\ Len(payload.f) > 0
  /\ \A i \in 1..Len(payload.f) :
       /\ payload.f[i][2].t = "obj"
       /\ \A j \in 1..Len(payload.f[i][2].f) : payload.f[i][2].f[j][2].t = "obj"

\* C15: the recursive search is capped at one level: a payload whose only
\* schema string sits two or more levels deeper yields undefined.
C15_OneLevelCap ==
  (ExtractedTree /\ DeepOnly(xpayload)) => xret = Undefined

\* C16: extractSchemaString terminates on every payload, cyclic object graphs
\* included, and returns a string or undefined: it never throws.
C16_TerminatesOnCycles ==
  xpc = "done" => xret # RangeError

\* ---------------------------------------------------- properties: copying
\* The versions of the listing the loop of an all-versions copy has been through.
Seen == SubSeq(cVersions, 1, cIdx - 1)
NotFailed(v) == \A n \in 1..Len(cFailed) : cFailed[n] # v
HasFailed(v) == ~NotFailed(v)
AllVersionsCopy == cNode.version = 0 /\ cpc \in {"fetch", "done"} /\ Len(cVersions) > 0

\* C17: in an all-versions copy a version whose fetch failed is logged and
\* left out, and only it: the entry holds every version whose fetch
\* returned, in the order of the source's listing, and is stored with a
\* success message as soon as it holds one version.
C17_BestEffortCopy ==
  AllVersionsCopy =>
    /\ [n \in 1..Len(cAll) |-> cAll[n].version] = SelectSeq(Seen, NotFailed)
    /\ cFailed = SelectSeq(Seen, HasFailed)
    /\ (cpc = "done" /\ Len(cAll) > 0) =>
         /\ clipboard = [subject |-> cNode.subject, versions |-> cAll]
         /\ copyMsg = "info: Copied schema"

C17_Witness ==
  /\ AllVersionsCopy /\ cpc = "done"
  /\ cVersions = <<1, 2, 3>> /\ cFailed = <<2>>
  /\ Len(clipboard.versions) = 2
  /\ clipboard.versions[1].version = 1 /\ clipboard.versions[2].version = 3

CopyErrors ==
  {"error: No versions found", "error: Failed to fetch any versions for subject",
   "error: Failed to copy schema", "error: Failed to copy schema version"}
\* The step in which a copy command ends.
CopyEnds == cpc # "done" /\ cpc' = "done"

\* C18: a copy ends with an error when the source lists no version ('No
\* versions found'), when every fetch failed ('Failed to fetch any versions')
\* and when the listing itself failed ('Failed to copy schema'); a copy that
\* ends with an error leaves the clipboard as it was, and the clipboard only
\* ever changes to the non-empty entry of a copy that ends with success.
C18_FailedCopyKeepsClipboard ==
  [][/\ (CopyEnds /\ cpc = "list" /\ anomalies' = anomalies) =>
          copyMsg' = "error: No versions found"
     /\ (CopyEnds /\ cpc = "list" /\ anomalies' # anomalies) =>
          copyMsg' = "error: Failed to copy schema"
     /\ (CopyEnds /\ cNode'.version = 0 /\ cpc = "fetch" /\ cAll' = <<>>) =>
          copyMsg' = "error: Failed to fetch any versions for subject"
     /\ (CopyEnds /\ cAll' = <<>>) => copyMsg' \in CopyErrors
     /\ (CopyEnds /\ copyMsg' \in CopyErrors) => clipboard' = clipboard
     /\ clipboard' # clipboard =>
          /\ CopyEnds /\ copyMsg' \notin CopyErrors
          /\ Len(cAll') > 0
          /\ clipboard' = [subject |-> cNode'.subject, versions |-> cAll']
    ]_vars

\* A second copy whose every fetch failed, after a first one that stored an
\* entry.
C18_Witness ==
  /\ cpc = "done" /\ clipboard # NoClip
  /\ cNode.version = 0 /\ Len(cVersions) > 0
  /\ cAll = <<>> /\ Len(cFailed) = Len(cVersions)
  /\ copyMsg = "error: Failed to fetch any versions for subject"

\* ------------------------------------------ properties: copy during paste
PasteRunning == ppc \notin {"idle", "done"}
\* The step in which the paste calls registerSchema, and the version it sends.
RegisterCall == Len(trail') = Len(trail) + 1 /\ IsCall(trail'[Len(trail')])
CalledVersion == trail'[Len(trail')].ver

\* C19 as stated: the running paste reads the global buffer, so each version
\* it registers is the one the buffer holds at that position at that moment.
C19_PasteReadsOverwrittenBuffer ==
  [][RegisterCall =>
       /\ idx <= Len(clipboard.versions)
       /\ clipboard.versions[idx].version = CalledVersion]_vars

\* C19, amended: the paste keeps the entry it read at its start: a copy that
\* completes meanwhile replaces the global buffer, not that entry, and every
\* version the paste registers is the one of its own entry.
C19_PasteKeepsItsEntry ==
  [][/\ PasteRunning => clip' = clip
     /\ RegisterCall =>
          /\ idx <= Len(clip.versions)
          /\ clip.versions[idx].version = CalledVersion]_vars

\* A copy has replaced the buffer while the paste, one version registered,
\* is about to register a version the new buffer does not hold.
C19_Witness ==
  /\ ppc = "register" /\ idx = 2 /\ Len(RegCalls) >= 1
  /\ cpc = "done" /\ clipboard # clip
  /\ \A i \in 1..Len(clipboard.versions) :
       clipboard.versions[i].version # clip.versions[idx].version

\* -------------------------------------- properties: ConnectClient.setOffsets
\* The PATCH was rejected because the connector is not stopped (409).
PatchRejected(n) == olog[n].verb = "PATCH" /\ olog[n].status = 409

\* C20: when the PATCH is rejected because the connector is not stopped, the
\* call fails and nothing is sent after that rejection: no PUT, no POST, no
\* per-task request.
C20_RejectionNotRetried ==
  \A n \in 1..Len(olog) : PatchRejected(n) => n = Len(olog)

\* The job-level requests are those to /connectors/{name}/offsets.
IsJobRequest(n) == olog[n].url = "offsets"
JobVerbAt(n, verb) == IsJobRequest(n) /\ olog[n].verb = verb
MethodNotAllowed(n) == olog[n].status = 405

\* C21: the job-level verbs are tried in the order PATCH, PUT, POST and a
\* fallback verb is sent only on method-not-allowed: a PUT only right after
\* a PATCH answered 405, a POST only right after a PUT answered 405.
C21_FallbackOnlyOn405 ==
  \A n \in 1..Len(olog) :
    /\ JobVerbAt(n, "PATCH") => \A m \in 1..(n - 1) : ~IsJobRequest(m)
    /\ JobVerbAt(n, "PUT") => n > 1 /\ JobVerbAt(n - 1, "PATCH") /\ MethodNotAllowed(n - 1)
    /\ JobVerbAt(n, "POST") => n > 1 /\ JobVerbAt(n - 1, "PUT") /\ MethodNotAllowed(n - 1)

\* The per-task requests are the PUTs to /connectors/{name}/tasks/{id}/offsets.
IsTaskPut(n) == olog[n].verb = "PUT" /\ ~IsJobRequest(n)
TaskPuts == {n \in 1..Len(olog) : IsTaskPut(n)}
JobSucceeded == \E n \in 1..Len(olog) : IsJobRequest(n) /\ Ok(olog[n].status)
OffsetsEnded == opc = "done"

\* C22: per-task PUTs are sent only when no job-level verb succeeded and the
\* status lists tasks; then every listed task gets a PUT to its own offsets
\* endpoint, and the call returns the aggregated results exactly when one of
\* the task PUTs succeeded, and fails with an error otherwise.
C22_PerTaskFallback ==
  /\ TaskPuts # {} => ~JobSucceeded /\ Len(otasks) > 0
  /\ (OffsetsEnded /\ Len(otasks) > 0) =>
       /\ \A i \in 1..Len(otasks) :
            \E n \in TaskPuts :
              olog[n].task = otasks[i] /\ olog[n].url = "tasks/{id}/offsets"
       /\ oret = Resolved("results") <=> \E n \in TaskPuts : Ok(olog[n].status)
       /\ oret # Resolved("results") => oret.kind = "rejected"

\* ---------------------------------- properties: ConnectClient.setOffsetsMethod
SentBy(k) == {n \in 1..Len(mlog) : mlog[n].call = k}

\* C23: every call of setOffsetsMethod sends exactly one request, with the
\* verb it was given; a failure status rejects with an error carrying that
\* verb and status, a success status resolves (with the body when it is
\* JSON); no call leaves anything behind, so a PATCH rejected with 409
\* succeeds when repeated after the connector was stopped.
C23_OneRequestPerCall ==
  \A k \in 1..Len(mrets) :
    /\ Cardinality(SentBy(k)) = 1
    /\ \A n \in SentBy(k) :
         LET st == mlog[n].status
             ret == mrets[k].ret
         IN /\ mlog[n].verb = mrets[k].verb
            /\ (st # 0 /\ ~Ok(st)) =>
                 /\ ret.kind = "rejected" /\ ret.status = st
                 /\ ret.why = "setOffsets " \o mrets[k].verb \o " failed"
            /\ Ok(st) =>
                 /\ ret.kind = "resolved"
                 /\ mlog[n].body = "json" => ret.why = "body"
            /\ (mlog[n].verb = "PATCH" /\ mlog[n].conn = "STOPPED" /\ st # 0) =>
                 ret = Resolved("body") \/ ret = Resolved("undefined")

\* A PATCH on the running connector was rejected with 409 and the same call
\* after the stop resolved with the worker's message.
C23_Witness ==
  /\ Len(mrets) >= 2
  /\ mrets[1] = [verb |-> "PATCH", ret |-> Rejected("setOffsets PATCH failed", 409)]
  /\ mrets[2] = [verb |-> "PATCH", ret |-> Resolved("body")]
  /\ mlog[1].conn = "RUNNING" /\ mlog[2].conn = "STOPPED"

\* ------------------------------------------ properties: ConnectionStore
Listed(id) == Find(listConnections(sSettings, sGlobal), id) # {}
SecretOf(id) == getSecret(sSettings, sGlobal, sSecrets, id)
Added(id) == sHist[id].op = "add"
Removed(id) == sHist[id].op = "remove"

\* C24 as stated: after addConnection(c, secret) the list contains c and
\* getSecret(c.id) returns secret; after removeConnection(c.id) the list has
\* no connection with that id and getSecret(c.id) returns undefined.
C24_RoundTrip ==
  \A id \in ConnIds :
    /\ Added(id) => Listed(id) /\ SecretOf(id) = sHist[id].secret
    /\ Removed(id) => ~Listed(id) /\ SecretOf(id) = NoStr

\* C24, amended: the same, but an empty secret counts as no secret, for
\* which getSecret returns undefined.
C24_RoundTripNonEmpty ==
  \A id \in ConnIds :
    /\ Added(id) =>
         /\ Cardinality(Find(listConnections(sSettings, sGlobal), id)) = 1
         /\ SecretOf(id) = IF TruthyArg(sHist[id].secret) THEN sHist[id].secret ELSE NoStr
    /\ Removed(id) => ~Listed(id) /\ SecretOf(id) = NoStr

\* Two connections were added with secrets, the first was removed again,
\* and getSecret was asked for the second.
C24_Witness ==
  /\ Removed("c1") /\ Added("c2") /\ Len(sHist["c2"].secret.chars) = MaxSecretLen
  /\ sret.call = "getSecret" /\ sret.id = "c2" /\ sret.secret = sHist["c2"].secret
  /\ sSecrets["c1"] = NoStr /\ Len(sSettings) = 1

\* ------------------------------ properties: findSubjectBySchema, the cap
\* The subjects the scan asked anything about.
Examined == {flog[n][1] : n \in 1..Len(flog)} \ {""}
WithinCap(subject) == IndexOf(subject, SubjectOrder) <= fmax
\* A version of the subject whose document the scan could fetch holds fstr.
HoldsMatch(subject) ==
  /\ <<subject, 0>> \notin fbad
  /\ \E v \in 1..Len(freg[subject]) : <<subject, v>> \notin fbad /\ freg[subject][v] = fstr

\* C26: the scan asks for the versions and documents of the first maxSubjects
\* subjects of the list only, so it examines at most maxSubjects subjects and
\* a match that only a later subject holds is reported as not found.
C26_ScanCap ==
  fpc = "done" =>
    /\ \A subject \in Examined : WithinCap(subject)
    /\ Cardinality(Examined) <= fmax
    /\ (\A subject \in Subjects : HoldsMatch(subject) => ~WithinCap(subject)) => fret = NoMatch

\* The second subject of the list holds the schema, the first does not, and
\* maxSubjects is 1: one subject examined, nothing found.
C26_Witness ==
  /\ fpc = "done" /\ fmax = 1 /\ fbad = {}
  /\ HoldsMatch(SubjectOrder[2]) /\ ~HoldsMatch(SubjectOrder[1])
  /\ Examined = {SubjectOrder[1]} /\ fret = NoMatch

\* --------------------- properties: pasteSchema, the single-schema fallback
GCalls(call) == {n \in 1..Len(glog) : glog[n].call = call}
GReads == GCalls("getVersions")
GRegistered == \E n \in GCalls("registerSchema") : glog[n].res = "ok"
SingleEnded == gpc = "done"
\* The number of reads up to and including the n-th entry of the log.
ReadNo(n) == Cardinality({m \in GReads : m <= n})

\* What C27 says about the reads and delays after the registration.
SingleVerification ==
  /\ Cardinality(GReads) <= 3
  /\ GReads # {} => GRegistered
  /\ \A n \in GReads :
       /\ glog[n].res = "some" => n = Len(glog) /\ SingleEnded
       /\ (glog[n].res # "some" /\ n < Len(glog)) =>
            glog[n + 1] = GSleep(400 * ReadNo(n))
  /\ \A n \in GCalls("sleep") : n > 1 /\ n - 1 \in GReads /\ glog[n - 1].res # "some"
  /\ \A n \in GCalls("registerSchema") : glog[n].res = "throw" => n = Len(glog) /\ SingleEnded

\* C27 as stated: a single-schema paste makes exactly one registerSchema
\* call; after a successful one the version list is read at most 3 times, up
\* to the first non-empty answer, with 400 ms times the attempt number after
\* each unsuccessful read; after a failed one there is no read.
C27_OneRegistration ==
  /\ SingleEnded => Cardinality(GCalls("registerSchema")) = 1
  /\ SingleVerification

\* C27, amended: exactly one registerSchema call when the payload is
\* understood, and none (an error message instead) when it is not.
C27_OneRegistrationIfUnderstood ==
  /\ Cardinality(GCalls("registerSchema")) <= 1
  /\ SingleEnded =>
       IF TruthyStr(extractSchemaString(gclip.schema))
       THEN Cardinality(GCalls("registerSchema")) = 1
       ELSE glog = <<>> /\ gmsg = "error: Copied schema payload not understood"
  /\ SingleVerification

\* Registered, then an error, an empty list and a non-empty list.
C27_Witness ==
  /\ SingleEnded /\ gmsg = "info: Pasted schema to T (versions: N)"
  /\ [n \in 1..Len(glog) |-> glog[n].res] = <<"ok", "throw", "", "empty", "", "some">>
  /\ glog[3].ms = 400 /\ glog[5].ms = 800

\* ------------------------------------------ properties: concurrent copies
\* What handler p stored: its subject with every version it fetched.
ResultOf(p) == [subject |-> kNode[p].subject, versions |-> kAll[p]]
Storers == {n \in 1..Len(kEnded) : kEnded[n].stored}
AllCopiesEnded == \A p \in Copiers : kpc[p] = "done"
\* The clipboard is empty or holds all of what one returned handler fetched.
WholeResultOfOne ==
  \/ clipboard = NoClip /\ Storers = {}
  \/ \E n \in Storers : clipboard = ResultOf(kEnded[n].by) /\ kpc[kEnded[n].by] = "done"

\* C29 as stated: the clipboard always holds the whole result of one copy,
\* and once all copies have returned, that of the copy that returned last.
C29_LastCompletedWins ==
  /\ WholeResultOfOne
  /\ (AllCopiesEnded /\ clipboard # NoClip) => clipboard = ResultOf(kEnded[Len(kEnded)].by)

\* C29, amended: once all copies have returned, the clipboard holds the
\* result of the last copy that stored one; a copy that fetched nothing, or
\* failed, stores nothing, whenever it returns.
C29_LastStoredWins ==
  /\ WholeResultOfOne
  /\ (AllCopiesEnded /\ Storers # {}) =>
       clipboard = ResultOf(kEnded[CHOOSE n \in Storers : \A m \in Storers : m <= n].by)
  /\ (AllCopiesEnded /\ Storers = {}) => clipboard = NoClip

\* Both handlers ran their loops in turns, the second invoked returned
\* first, and the clipboard holds the two versions of the first.
C29_Witness ==
  /\ AllCopiesEnded
  /\ kEnded = <<Ended(2, TRUE), Ended(1, TRUE)>>
  /\ Len(kAll[1]) = MaxCopyVer /\ Len(kAll[2]) = 1 /\ Len(kVersions[2]) = MaxCopyVer
  /\ clipboard = ResultOf(1)

\* -------------------- properties: ConnectClient.setOffsets, first success
\* C30: the first job-level verb answered with a success status ends
\* setOffsets: nothing is sent after it and the call resolves with that
\* answer's result; the call rejects only when no job-level verb and no
\* per-task PUT succeeded.
C30_ResolvesAtFirstSuccess ==
  /\ \A n \in 1..Len(olog) :
       (IsJobRequest(n) /\ Ok(olog[n].status)) =>
         n = Len(olog) /\ OffsetsEnded /\ oret.kind = "resolved"
  /\ oret.kind = "rejected" =>
       ~JobSucceeded /\ ~\E n \in TaskPuts : Ok(olog[n].status)

====
